---- MODULE Spec2Model ----
(***************************************************************************)
(* Preflight validation of the migrate tool: configuration resolution      *)
(* (Config::new), artifact location (FileInfo::new), artifact              *)
(* classification (FileInfo::is_type / expect_type), the command table of  *)
(* call_cmd, the connectivity probe (check_tcp_connect), the provisioning  *)
(* document (BalenaCfgJson), the checksum of a file reference and the      *)
(* parsing of the configuration document.                                  *)
(*                                                                         *)
(* Each component has its own specification (SpecConfig, SpecFileInfo,     *)
(* SpecClassify, SpecCmd, SpecNet, SpecJson, SpecJsonCheck, SpecDigest,    *)
(* SpecParse); the variables of the other components stay at their idle    *)
(* values.  Sequential functions are modelled step by step where other     *)
(* processes or threads can interfere, and as one step otherwise.          *)
(***************************************************************************)
EXTENDS Integers, Sequences, FiniteSets, TLC

VARIABLES
    fs,            \* the file system: the set of existing absolute paths
    displayed,     \* messages printed with error!(), in order
    \* ---- Config::new
    argWorkDir,    \* command line --work_dir (option of a path)
    argConfig,     \* command line --config   (option of a path)
    argMode,       \* command line --mode     (option of a string)
    argImage,      \* command line --image    (option of a string)
    cpc,           \* position inside Config::new
    work_dir,      \* local work_dir     (config.rs:98)
    tmp_work_dir,  \* local tmp_work_dir (config.rs:121)
    config_path,   \* local config_path  (config.rs:128)
    doc,           \* the document read by Config::from_file, if any
    config,        \* local config       (config.rs:154)
    validated,     \* the sub-trees Config::check has validated, in order
    cres,          \* what Config::new returned
    \* ---- FileInfo::new
    fiFile,        \* argument file
    fiWorkDir,     \* argument work_dir
    fpc,           \* position inside FileInfo::new
    foundGiven,    \* what file_exists(file_path) answered      (file_info.rs:80)
    foundWork,     \* what search_path.exists() answered        (file_info.rs:85)
    checked_path,  \* local checked_path                        (file_info.rs:80)
    abs_path,      \* local abs_path                            (file_info.rs:97)
    removals,      \* how many files the environment has removed
    fres,          \* what FileInfo::new returned
    \* ---- FileInfo::is_type / expect_type
    target_os,     \* the platform the program is built for
    tpc,           \* "idle" before the call, "done" after it
    tOp,           \* which operation was called
    tPath,         \* self.path
    tType,         \* argument ftype
    tCall,         \* what cmds.call(FILE_CMD, ["-bz", path], true) did
    tIs,           \* what is_type returned
    tExpect,       \* what expect_type returned
    \* ---- linux::util::call_cmd, called from several threads
    cmdEnv,        \* what running whereis for each command does
    once,          \* the Once that guards the lazy static CMD_PATH
    CMD_PATH,      \* static ref CMD_PATH, once it is initialised
    lookups,       \* how many times whereis was run for each command
    spawned,       \* the commands call_cmd has started a subprocess for
    cmdPc,         \* per thread: position inside call_cmd
    cmdArg,        \* per thread: argument cmd
    cmdTrim,       \* per thread: argument trim_stdout
    cmdMap,        \* per thread: local map of the initializer (util.rs:55)
    cmdPos,        \* per thread: how many commands the initializer has done
    cmdSeen,       \* per thread: the table the call read at util.rs:81
    cmdCalls,      \* per thread: how many calls it has made
    cmdRes,        \* per thread: what call_cmd returned
    \* ---- common::check_tcp_connect
    netResolve,    \* what name resolution answers for each host and port
    netReach,      \* what a connection attempt to each address does
    netHost,       \* argument host
    netPort,       \* argument port
    attempts,      \* the addresses a connection was attempted to, in order
    shutdowns,     \* the addresses whose connection was shut down, in order
    npc,           \* "idle" before the call, "done" after it
    nres,          \* what check_tcp_connect returned
    \* ---- BalenaCfgJson
    jDisk,         \* the files of the work dir: name -> text
    jConfig,       \* field config
    modified,      \* field modified
    jpc,           \* "new" before construction, then "ready"
    jOp,           \* the last operation called
    jArg,          \* its argument
    jres,          \* what it returned
    jOps,          \* how many operations were called on the document
    jWritten,      \* the path the last successful write returned, if any
    jReparsed,     \* BalenaCfgJson::new of the file at jWritten
    checkApi,      \* config.is_check_api()
    checkVpn,      \* config.is_check_vpn()
    jProbes,       \* the probes check() made: which, host, port, outcome
    jReturned,     \* the paths write() has returned, in order
    \* ---- checksum verification of a file reference
    dgContent,     \* the bytes of the artifact
    dgExpected,    \* FileRef.hash: the expected digest, if configured
    dgpc,          \* "idle", "verified", "reverified"
    dgFirst,       \* what the verification of the configured digest returned
    dgRes,         \* what the last verification returned
    \* ---- Config::from_string
    yDoc,          \* the configuration document
    ypc,           \* "idle" before the call, "done" after it
    yRes           \* what Config::from_string returned

cfgVars  == <<argWorkDir, argConfig, argMode, argImage, cpc, work_dir,
              tmp_work_dir, config_path, doc, config, validated, cres>>
fiVars   == <<fiFile, fiWorkDir, fpc, foundGiven, foundWork, checked_path,
              abs_path, removals, fres>>
typeVars == <<target_os, tpc, tOp, tPath, tType, tCall, tIs, tExpect>>
cmdVars  == <<cmdEnv, once, CMD_PATH, lookups, spawned, cmdPc, cmdArg,
              cmdTrim, cmdMap, cmdPos, cmdSeen, cmdCalls, cmdRes>>
netVars  == <<netResolve, netReach, netHost, netPort, attempts, shutdowns,
              npc, nres>>
jsonVars == <<jDisk, jConfig, modified, jpc, jOp, jArg, jres, jOps, jWritten,
              jReparsed, checkApi, checkVpn, jProbes, jReturned>>
dgVars   == <<dgContent, dgExpected, dgpc, dgFirst, dgRes>>
parseVars == <<yDoc, ypc, yRes>>
vars     == <<fs, displayed, cfgVars, fiVars, typeVars, cmdVars, netVars,
              jsonVars, dgVars, parseVars>>

----------------------------------------------------------------------------
(* Options, results, error kinds                                           *)

\* MigErrorKind, as far as this core uses it.
ErrorKinds == {"Upstream", "InvParam", "NotFound", "InvState", "ExecProcess",
               "NotImpl", "Displayed"}

Ok(v)    == [ok |-> TRUE,  kind |-> "",   val |-> v]
Err(k)   == [ok |-> FALSE, kind |-> k,    val |-> <<>>]
\* An error built with MigError::from_remark: kind and message.
ErrMsg(k, m) == [ok |-> FALSE, kind |-> k, val |-> m]
\* The function did not return: a panic unwound through it.
Panic    == [ok |-> FALSE, kind |-> "PANIC", val |-> <<>>]
\* No call has returned yet.
NoResult == [ok |-> FALSE, kind |-> "NONE",  val |-> <<>>]

----------------------------------------------------------------------------
(* Paths.  A path is its components as written plus whether it starts at   *)
(* the root; nothing is normalised until canonicalize().                   *)

MkPath(a, c) == [abs |-> a, comps |-> c]
AbsPath(c)   == MkPath(TRUE, c)
RelPath(c)   == MkPath(FALSE, c)

SomePath(p) == [some |-> TRUE,  val |-> p]
NoPath      == [some |-> FALSE, val |-> RelPath(<<>>)]
SomeStr(s)  == [some |-> TRUE,  val |-> s]
NoStr       == [some |-> FALSE, val |-> ""]

\* The process's current directory.
Cwd == <<"home">>

\* Path::is_absolute
is_absolute(p) == p.abs

\* Path::join: an absolute argument replaces the base.
join(base, p) == IF p.abs THEN p ELSE MkPath(base.abs, base.comps \o p.comps)

\* common::path_append(base, append), for the relative append Config::new
\* passes: the base with the path appended.
path_append(base, p) == join(base, p)

\* Path::parent of a path with at least one component.
parent(p) == MkPath(p.abs, SubSeq(p.comps, 1, Len(p.comps) - 1))

\* The components of a path with every "." removed.
RECURSIVE DropDots(_)
DropDots(c) ==
    IF c = <<>> THEN <<>>
    ELSE IF Head(c) = "." THEN DropDots(Tail(c))
    ELSE <<Head(c)>> \o DropDots(Tail(c))

\* Where the operating system looks for p: relative paths start at Cwd.
Locate(p) == DropDots(IF p.abs THEN p.comps ELSE Cwd \o p.comps)

\* Path::exists, and common::file_exists which is Path::new(file).exists().
PathExists(p, files) == Locate(p) \in files
file_exists(p, files) == PathExists(p, files)

\* Path::canonicalize: the absolute, normalised path of an existing file;
\* an error when nothing is there.
canonicalize(p, files) ==
    IF Locate(p) \in files
    THEN Ok(AbsPath(Locate(p)))
    ELSE Err("Upstream")

----------------------------------------------------------------------------
(* YAML values of a configuration document.  A node is absent, null or a   *)
(* scalar; every node has the same fields so that nodes compare.           *)

YAbsent  == [k |-> "absent", s |-> "", n |-> 0, b |-> FALSE, h |-> <<>>]
YNull    == [k |-> "null",   s |-> "", n |-> 0, b |-> FALSE, h |-> <<>>]
YStr(x)  == [k |-> "str",    s |-> x,  n |-> 0, b |-> FALSE, h |-> <<>>]
YInt(x)  == [k |-> "int",    s |-> "", n |-> x, b |-> FALSE, h |-> <<>>]
YBool(x) == [k |-> "bool",   s |-> "", n |-> 0, b |-> x,     h |-> <<>>]
\* A scalar written with hex digits only, kept digit by digit.
YHex(x)  == [k |-> "str",    s |-> "", n |-> 0, b |-> FALSE, h |-> x]

SomeNat(x) == [some |-> TRUE,  val |-> x]
NoNat      == [some |-> FALSE, val |-> 0]
SomeBool(x) == [some |-> TRUE,  val |-> x]
NoBool      == [some |-> FALSE, val |-> FALSE]

\* get_yaml_str / get_yaml_int / get_yaml_bool of the configuration module:
\* a key that is absent or null gives None, a scalar of the asked type gives
\* its value, another scalar is an InvParam error.
get_yaml_str(node) ==
    IF node.k \in {"absent", "null"} THEN Ok(NoStr)
    ELSE IF node.k = "str" THEN Ok(SomeStr(node.s))
    ELSE Err("InvParam")
get_yaml_int(node) ==
    IF node.k \in {"absent", "null"} THEN Ok(NoNat)
    ELSE IF node.k = "int" THEN Ok(SomeNat(node.n))
    ELSE Err("InvParam")
get_yaml_bool(node) ==
    IF node.k \in {"absent", "null"} THEN Ok(NoBool)
    ELSE IF node.k = "bool" THEN Ok(SomeBool(node.b))
    ELSE Err("InvParam")

\* HashInfo::Md5(text) (config.rs:277), or no hash.
HashInfo_Md5(h) == [some |-> TRUE, alg |-> "md5", hex |-> h]
NoHash == [some |-> FALSE, alg |-> "", hex |-> <<>>]

\* FileRef { path, hash } (config.rs:275).
FileRef(path, hash) == [path |-> path, hash |-> hash]
FileRef_default == FileRef("", NoHash)

----------------------------------------------------------------------------
(* Configuration: modes, sub-trees, documents                              *)

\* enum MigMode (migrate_config.rs:8).
MigModes == {"Invalid", "Agent", "Immediate", "Pretend"}

\* const DEFAULT_MODE (migrate_config.rs:15).
DEFAULT_MODE == "Invalid"

\* defs::DEFAULT_MIGRATE_CONFIG, the file name looked for when --config is
\* not given.
DEFAULT_MIGRATE_CONFIG == RelPath(<<"balena-migrate.yml">>)

\* The mode strings the model feeds in, and str::to_lowercase on them.
ModeStrings == {"pretend", "IMMEDIATE", "immediate", "agent", "Agent", "bogus"}
to_lowercase(s) ==
    CASE s = "IMMEDIATE" -> "immediate"
      [] s = "Agent"     -> "agent"
      [] OTHER           -> s

\* MigrateConfig::default (migrate_config.rs:30): the work dir is the text
\* ".", the mode is DEFAULT_MODE, no reboot delay, no log target, empty
\* kernel and initramfs file names, no forced device type.
MigrateConfig_default ==
    [work_dir |-> RelPath(<<".">>),
     mode     |-> DEFAULT_MODE,
     reboot   |-> NoNat, all_wifis |-> FALSE, log_to |-> NoStr,
     kernel_file |-> "", initramfs_file |-> "",
     force_slug |-> NoStr]

\* What config.rs asks of a MigrateConfig and the struct of
\* migrate_config.rs does not declare: whether a work dir was specified
\* (has_work_dir, config.rs:158, 176) and the kernel and initrd references
\* (get_kernel_path, get_initrd_path, config.rs:273, 282).  The model keeps
\* them next to the fields of the struct.
with_file_refs(m, work_dir_set, kernel, initrd) ==
    [work_dir |-> m.work_dir, mode |-> m.mode, reboot |-> m.reboot,
     all_wifis |-> m.all_wifis, log_to |-> m.log_to,
     kernel_file |-> m.kernel_file, initramfs_file |-> m.initramfs_file,
     force_slug |-> m.force_slug,
     work_dir_set |-> work_dir_set,
     kernel |-> kernel, initrd |-> initrd]

\* BalenaConfig::default: no image, no provisioning document, no toggles.
BalenaConfig_default ==
    [image |-> NoStr, image_type |-> "none", image_hash |-> NoHash,
     config |-> FileRef_default,
     api_check |-> NoBool, check_vpn |-> NoBool, check_timeout |-> NoNat]

\* DebugConfig::default.
DebugConfig_default == [no_flash |-> NoBool]

\* Mutant: the default configuration has the current directory as a work
\* dir that was specified.
Config_default_cwd ==
    [migrate |-> with_file_refs(MigrateConfig_default, TRUE, FileRef_default,
                                FileRef_default),
     balena |-> BalenaConfig_default,
     debug |-> DebugConfig_default]

\* Config::default (config.rs:205): the defaults of the three sub-trees; no
\* work dir was specified.
Config_default ==
    [migrate |-> with_file_refs(MigrateConfig_default, FALSE, FileRef_default,
                                FileRef_default),
     balena |-> BalenaConfig_default,
     debug |-> DebugConfig_default]

\* MigrateConfig::has_work_dir / set_work_dir / set_mig_mode.  A work dir is
\* specified by the document that names one, whatever the name, or by
\* set_work_dir; the "." that default() stores is not a specified one.
has_work_dir(m)    == m.work_dir_set
set_work_dir(m, p) == [m EXCEPT !.work_dir = p, !.work_dir_set = TRUE]
set_mig_mode(m, v) == [m EXCEPT !.mode = v]

\* The recognised mode names (migrate_config.rs:88-93), compared in lower case.
ParseMode(s) ==
    LET l == to_lowercase(s) IN
    IF l = "immediate" THEN Ok("Immediate")
    ELSE IF l = "agent" THEN Ok("Agent")
    ELSE IF l = "pretend" THEN Ok("Pretend")
    ELSE Err("InvParam")

\* The keys of MigrateConfig::from_yaml after the mode, in the order of the
\* source: reboot (kept only if greater than zero), all_wifis, force_slug.
\* The log_to section is not modelled.
from_yaml_tail(m, y) ==
    LET rb  == get_yaml_int(y.reboot)
        aw  == get_yaml_bool(y.all_wifis)
        fsl == get_yaml_str(y.force_slug)
        m1  == IF ~rb.val.some THEN m
               ELSE IF rb.val.val > 0 THEN [m EXCEPT !.reboot = rb.val]
               ELSE [m EXCEPT !.reboot = NoNat]
        m2  == IF aw.val.some THEN [m1 EXCEPT !.all_wifis = aw.val.val] ELSE m1
        m3  == IF fsl.val.some THEN [m2 EXCEPT !.force_slug = fsl.val] ELSE m2
    IN  IF ~rb.ok THEN rb
        ELSE IF ~aw.ok THEN aw
        ELSE IF ~fsl.ok THEN fsl
        ELSE Ok(m3)

\* Mutant: a document with a key the program does not know is rejected.
from_yaml_deny_unknown(m, y) ==
    LET kf  == get_yaml_str(y.kernel_file)
        inf == get_yaml_str(y.initramfs_file)
        m1  == IF y.work_dir.some THEN [m EXCEPT !.work_dir = y.work_dir.val]
               ELSE m
        m2  == IF kf.val.some THEN [m1 EXCEPT !.kernel_file = kf.val.val]
               ELSE m1
        m3  == IF inf.val.some THEN [m2 EXCEPT !.initramfs_file = inf.val.val]
               ELSE m2
    IN  IF y.unknown # {} THEN Err("InvParam")
        ELSE IF ~kf.ok THEN kf
        ELSE IF ~inf.ok THEN inf
        ELSE IF ~y.mode.some THEN from_yaml_tail(m3, y)
        ELSE IF ParseMode(y.mode.val).ok
             THEN from_yaml_tail(set_mig_mode(m3, ParseMode(y.mode.val).val), y)
             ELSE Err("InvParam")

\* MigrateConfig::from_yaml (migrate_config.rs:74): the scalar keys
\* work_dir, kernel_file, initramfs_file and mode, then the keys of
\* from_yaml_tail.  A key the document sets replaces the field, keys the
\* function does not ask for (kernel, initrd and any other) are not looked
\* at, an unrecognised mode is an InvParam error.
from_yaml(m, y) ==
    LET kf  == get_yaml_str(y.kernel_file)
        inf == get_yaml_str(y.initramfs_file)
        m1  == IF y.work_dir.some THEN [m EXCEPT !.work_dir = y.work_dir.val]
               ELSE m
        m2  == IF kf.val.some THEN [m1 EXCEPT !.kernel_file = kf.val.val]
               ELSE m1
        m3  == IF inf.val.some THEN [m2 EXCEPT !.initramfs_file = inf.val.val]
               ELSE m2
    IN  IF ~kf.ok THEN kf
        ELSE IF ~inf.ok THEN inf
        ELSE IF ~y.mode.some THEN from_yaml_tail(m3, y)
        ELSE IF ParseMode(y.mode.val).ok
             THEN from_yaml_tail(set_mig_mode(m3, ParseMode(y.mode.val).val), y)
             ELSE Err("InvParam")

\* The decimal digits of a number, as a scalar written without quotes is
\* read when a text is asked for.
RECURSIVE DigitChars(_)
DigitChars(n) ==
    LET d == <<"0", "1", "2", "3", "4", "5", "6", "7", "8", "9">>[(n % 10) + 1]
    IN  IF n < 10 THEN <<d>> ELSE Append(DigitChars(n \div 10), d)

\* The hash of a file reference: the key md5 with a scalar, or nothing.
HashInfo_from_yaml(node) ==
    IF node.k \in {"absent", "null"} THEN Ok(NoHash)
    ELSE IF node.k = "str" THEN Ok(HashInfo_Md5(node.h))
    ELSE IF node.k = "int" THEN Ok(HashInfo_Md5(DigitChars(node.n)))
    ELSE Err("InvParam")

\* A file reference of the document: its path and its hash.
FileRef_from_yaml(path, md5) ==
    LET p == get_yaml_str(path)
        h == HashInfo_from_yaml(md5)
    IN  IF ~p.ok THEN p
        ELSE IF ~h.ok THEN h
        ELSE Ok(FileRef(IF p.val.some THEN p.val.val ELSE "", h.val))

\* The balena section: the image as a raw disk image (dd) or as a set of
\* partition archives (fs), the provisioning document, and the toggles.
BalenaConfig_from_yaml(y) ==
    LET img == FileRef_from_yaml(y.image.path, y.image.md5)
        cfg == FileRef_from_yaml(y.config_path, y.config_md5)
        api == get_yaml_bool(y.api_check)
        vpn == get_yaml_bool(y.check_vpn)
        tmo == get_yaml_int(y.check_timeout)
    IN  IF y.image.kind # "none" /\ ~img.ok THEN img
        ELSE IF ~cfg.ok THEN cfg
        ELSE IF ~api.ok THEN api
        ELSE IF ~vpn.ok THEN vpn
        ELSE IF ~tmo.ok THEN tmo
        ELSE Ok([image |-> IF y.image.kind = "none" \/ img.val.path = ""
                           THEN NoStr ELSE SomeStr(img.val.path),
                 image_type |-> CASE y.image.kind = "dd" -> "Flasher"
                                  [] y.image.kind = "fs" -> "FileSystems"
                                  [] OTHER -> "none",
                 image_hash |-> IF y.image.kind = "none" THEN NoHash
                                ELSE img.val.hash,
                 config |-> cfg.val,
                 api_check |-> api.val, check_vpn |-> vpn.val,
                 check_timeout |-> tmo.val])

\* The debug section.
DebugConfig_from_yaml(y) ==
    LET nf == get_yaml_bool(y.no_flash) IN
    IF ~nf.ok THEN nf ELSE Ok([no_flash |-> nf.val])

\* MigMode::from_str, applied to the --mode value (config.rs:188).
MigMode_from_str(s) == ParseMode(s)

\* Config::from_string (config.rs:213): the three sections are read, the
\* migrate section by from_yaml, with whether it names a work dir and with
\* its kernel and initrd references as file references; any failure of the deserialiser is wrapped as an Upstream
\* error.
Config_from_string(d) ==
    LET r  == from_yaml(MigrateConfig_default, d)
        k  == FileRef_from_yaml(d.kernel_path, d.kernel_md5)
        i  == FileRef_from_yaml(d.initrd_path, d.initrd_md5)
        b  == BalenaConfig_from_yaml(d)
        g  == DebugConfig_from_yaml(d)
    IN  IF d.state = "malformed" \/ ~r.ok \/ ~k.ok \/ ~i.ok \/ ~b.ok \/ ~g.ok
        THEN Err("Upstream")
        ELSE Ok([migrate |-> with_file_refs(r.val, d.work_dir.some, k.val, i.val),
                 balena |-> b.val,
                 debug |-> g.val])

\* Config::from_file (config.rs:222): a read failure is an Upstream error.
Config_from_file(d) ==
    IF d.state = "unreadable" THEN Err("Upstream") ELSE Config_from_string(d)

\* MigrateConfig::check: Invalid is never accepted; outside Agent mode the
\* kernel and initramfs references must resolve and classify.
migrate_check(m, env) ==
    IF m.mode = "Invalid" THEN Err("InvParam")
    ELSE IF m.mode # "Agent" /\ env.artifacts # "ok" THEN Err(env.artifacts)
    ELSE Ok(<<>>)

\* BalenaConfig::check(mode): outside Agent mode the image must resolve.
balena_check(b, mode, env) ==
    IF mode # "Agent" /\ env.balena # "ok" THEN Err(env.balena) ELSE Ok(<<>>)

\* DebugConfig::check(mode).
debug_check(mode, env) ==
    IF env.debug # "ok" THEN Err(env.debug) ELSE Ok(<<>>)

\* Mutant: the migrate sub-tree is not validated.
Config_check_no_migrate(c, env) ==
    LET rb == balena_check(c.balena, c.migrate.mode, env)
        rd == debug_check(c.migrate.mode, env)
    IN  IF ~rb.ok THEN [res |-> rb, seen |-> <<"balena">>]
        ELSE IF ~rd.ok THEN [res |-> rd, seen |-> <<"balena", "debug">>]
        ELSE [res |-> Ok(<<>>), seen |-> <<"balena", "debug">>]

\* Mutant: every sub-tree is validated whatever the earlier ones returned.
Config_check_continue(c, env) ==
    LET rm == migrate_check(c.migrate, env)
        rb == balena_check(c.balena, c.migrate.mode, env)
        rd == debug_check(c.migrate.mode, env)
    IN  [res  |-> IF ~rm.ok THEN rm ELSE IF ~rb.ok THEN rb ELSE rd,
         seen |-> <<"migrate", "balena", "debug">>]

\* Config::check (config.rs:231): migrate, then balena, then debug, each
\* with `?`.  Returns the result and the sub-trees validated.
Config_check(c, env) ==
    LET rm == migrate_check(c.migrate, env)
        rb == balena_check(c.balena, c.migrate.mode, env)
        rd == debug_check(c.migrate.mode, env)
    IN  IF ~rm.ok THEN [res |-> rm, seen |-> <<"migrate">>]
        ELSE IF ~rb.ok THEN [res |-> rb, seen |-> <<"migrate", "balena">>]
        ELSE IF ~rd.ok THEN [res |-> rd, seen |-> <<"migrate", "balena", "debug">>]
        ELSE [res |-> Ok(<<>>), seen |-> <<"migrate", "balena", "debug">>]

----------------------------------------------------------------------------
(* Inputs of Config::new                                                   *)

WorkDirArgs == {NoPath, SomePath(RelPath(<<"work">>)),
                SomePath(AbsPath(<<"home", "work">>))}
ConfigArgs  == {NoPath, SomePath(RelPath(<<"c.yml">>)),
                SomePath(AbsPath(<<"etc", "c.yml">>))}
ModeArgs    == {NoStr, SomeStr("pretend"), SomeStr("IMMEDIATE"),
                SomeStr("agent"), SomeStr("bogus")}
ImageArgs   == {NoStr, SomeStr("balena.img.gz")}

\* Directories that always exist, and the entries a run may or may not have.
FsAlways   == {<<>>, <<"home">>, <<"etc">>}
FsOptional == {<<"home", "work">>,
               <<"home", "balena-migrate.yml">>,
               <<"home", "work", "balena-migrate.yml">>,
               <<"home", "c.yml">>,
               <<"home", "work", "c.yml">>,
               <<"etc", "c.yml">>}
FsClosed(f) == \A c \in f : Len(c) > 0 => SubSeq(c, 1, Len(c) - 1) \in f
FsChoices  == {f \in {FsAlways \cup o : o \in SUBSET FsOptional} : FsClosed(f)}

\* Configuration documents: unreadable, not YAML, or a document that sets
\* or omits migrate.work_dir and migrate.mode.
DocWorkDirs == {NoPath, SomePath(RelPath(<<"data">>)), SomePath(RelPath(<<".">>))}
DocModes    == {NoStr, SomeStr("immediate"), SomeStr("Agent"), SomeStr("bogus")}
NoImage == [kind |-> "none", path |-> YAbsent, md5 |-> YAbsent]
EmptyYaml ==
    [state |-> "ok", work_dir |-> NoPath, mode |-> NoStr,
     reboot |-> YAbsent, all_wifis |-> YAbsent, force_slug |-> YAbsent,
     kernel_file |-> YAbsent, initramfs_file |-> YAbsent,
     kernel_path |-> YAbsent, kernel_md5 |-> YAbsent,
     initrd_path |-> YAbsent, initrd_md5 |-> YAbsent,
     image |-> NoImage, config_path |-> YAbsent, config_md5 |-> YAbsent,
     api_check |-> YAbsent, check_vpn |-> YAbsent, check_timeout |-> YAbsent,
     no_flash |-> YAbsent, unknown |-> {}]
PlainDoc(st, wd, m) ==
    [EmptyYaml EXCEPT !.state = st, !.work_dir = wd, !.mode = m]
Docs ==
    {PlainDoc("unreadable", NoPath, NoStr), PlainDoc("malformed", NoPath, NoStr)}
    \cup {PlainDoc("ok", wd, m) : wd \in DocWorkDirs, m \in DocModes}
NoDoc == PlainDoc("none", NoPath, NoStr)

\* What the artifact checks of the three sub-trees find.
CheckEnvs == [artifacts : {"ok", "NotFound"}, balena : {"ok", "NotFound"},
              debug : {"ok", "InvParam"}]

----------------------------------------------------------------------------
(* Config::new, step by step                                               *)

CfgIdle ==
    /\ argWorkDir = NoPath /\ argConfig = NoPath
    /\ argMode = NoStr /\ argImage = NoStr
    /\ cpc = "idle"
    /\ work_dir = NoPath /\ tmp_work_dir = RelPath(<<>>)
    /\ config_path = NoPath /\ doc = NoDoc
    /\ config = Config_default /\ validated = <<>>
    /\ cres = NoResult

\* config.rs:98-125: the command-line work dir, canonicalized, and the
\* provisional work dir used to look for the document.
WorkDirFromArgs(arg, files) ==
    IF arg.some
    THEN IF canonicalize(arg.val, files).ok
         THEN Ok(SomePath(canonicalize(arg.val, files).val))
         ELSE Err("Upstream")
    ELSE Ok(NoPath)

ResolveWorkDir ==
    /\ cpc = "start"
    /\ LET r == WorkDirFromArgs(argWorkDir, fs) IN
       IF r.ok
       THEN /\ work_dir' = r.val
            /\ tmp_work_dir' = IF r.val.some THEN r.val.val ELSE RelPath(<<".">>)
            /\ cpc' = "locate"
            /\ cres' = cres
       ELSE /\ cres' = r
            /\ cpc' = "done"
            /\ UNCHANGED <<work_dir, tmp_work_dir,
                   cmdVars, netVars, jsonVars, dgVars, parseVars>>
    /\ UNCHANGED <<fs, displayed, argWorkDir, argConfig, argMode, argImage,
                   config_path, doc, config, validated, fiVars, typeVars,
                   cmdVars, netVars, jsonVars, dgVars, parseVars>>

\* Mutant: the work dir is searched before the current directory.
LocateConfigPath_work_dir_first(arg, tmp, files) ==
    LET cp == IF arg.some THEN arg.val ELSE DEFAULT_MIGRATE_CONFIG IN
    IF is_absolute(cp) THEN SomePath(cp)
    ELSE IF canonicalize(path_append(tmp, cp), files).ok
         THEN SomePath(canonicalize(path_append(tmp, cp), files).val)
    ELSE IF canonicalize(cp, files).ok
         THEN SomePath(canonicalize(cp, files).val)
    ELSE NoPath

\* config.rs:128-152: where the document is looked for.
LocateConfigPath(arg, tmp, files) ==
    LET cp == IF arg.some THEN arg.val ELSE DEFAULT_MIGRATE_CONFIG IN
    IF is_absolute(cp) THEN SomePath(cp)
    ELSE IF canonicalize(cp, files).ok
         THEN SomePath(canonicalize(cp, files).val)
    ELSE IF canonicalize(path_append(tmp, cp), files).ok
         THEN SomePath(canonicalize(path_append(tmp, cp), files).val)
    ELSE NoPath

LocateConfig ==
    /\ cpc = "locate"
    /\ config_path' = LocateConfigPath(argConfig, tmp_work_dir, fs)
    /\ cpc' = "build"
    /\ UNCHANGED <<fs, displayed, argWorkDir, argConfig, argMode, argImage,
                   work_dir, tmp_work_dir, doc, config, validated, cres,
                   fiVars, typeVars,
                   cmdVars, netVars, jsonVars, dgVars, parseVars>>

\* config.rs:154-169: the base configuration from the document d found at
\* cp, with the document's directory as work dir if nothing else set one.
BaseFromDoc(d, cp, wd) ==
    LET r == Config_from_file(d) IN
    IF ~r.ok THEN r
    ELSE IF ~has_work_dir(r.val.migrate) /\ ~wd.some
         THEN Ok([r.val EXCEPT !.migrate = set_work_dir(@, parent(cp))])
         ELSE r

DocFound(cp, files) == cp.some /\ file_exists(cp.val, files)

BuildBase ==
    /\ cpc = "build"
    /\ IF DocFound(config_path, fs)
       THEN \E d \in Docs :
                LET r == BaseFromDoc(d, config_path.val, work_dir) IN
                /\ doc' = d
                /\ IF r.ok
                   THEN config' = r.val /\ cpc' = "override" /\ cres' = cres
                   ELSE config' = config /\ cpc' = "done" /\ cres' = r
       ELSE /\ config' = Config_default
            /\ cpc' = "override"
            /\ UNCHANGED <<doc, cres,
                   cmdVars, netVars, jsonVars, dgVars, parseVars>>
    /\ UNCHANGED <<fs, displayed, argWorkDir, argConfig, argMode, argImage,
                   work_dir, tmp_work_dir, config_path, validated,
                   fiVars, typeVars,
                   cmdVars, netVars, jsonVars, dgVars, parseVars>>

\* Mutant: the command-line work dir is used only when the document set none.
ApplyWorkDir_unless_set(c, wd) ==
    IF wd.some /\ ~has_work_dir(c.migrate)
    THEN [c EXCEPT !.migrate = set_work_dir(@, wd.val)]
    ELSE c

\* config.rs:171-174: the command-line work dir overrides.
ApplyWorkDir(c, wd) ==
    IF wd.some THEN [c EXCEPT !.migrate = set_work_dir(@, wd.val)] ELSE c

OverrideWorkDir ==
    /\ cpc = "override"
    /\ config' = ApplyWorkDir(config, work_dir)
    /\ cpc' = "require"
    /\ UNCHANGED <<fs, displayed, argWorkDir, argConfig, argMode, argImage,
                   work_dir, tmp_work_dir, config_path, doc, validated, cres,
                   fiVars, typeVars,
                   cmdVars, netVars, jsonVars, dgVars, parseVars>>

\* config.rs:176-179: no work dir is a displayed error.
RequireWorkDir ==
    /\ cpc = "require"
    /\ IF ~has_work_dir(config.migrate)
       THEN /\ displayed' = Append(displayed, "no working directory")
            /\ cres' = Err("Displayed")
            /\ cpc' = "done"
       ELSE /\ cpc' = "mode"
            /\ UNCHANGED <<displayed, cres,
                   cmdVars, netVars, jsonVars, dgVars, parseVars>>
    /\ UNCHANGED <<fs, argWorkDir, argConfig, argMode, argImage, work_dir,
                   tmp_work_dir, config_path, doc, config, validated,
                   fiVars, typeVars,
                   cmdVars, netVars, jsonVars, dgVars, parseVars>>

\* Mutant: the command-line mode is used only when the document set none.
ApplyMode_unless_set(c, arg) ==
    IF arg.some /\ c.migrate.mode = "Invalid"
    THEN IF MigMode_from_str(arg.val).ok
         THEN Ok([c EXCEPT !.migrate = set_mig_mode(@, MigMode_from_str(arg.val).val)])
         ELSE MigMode_from_str(arg.val)
    ELSE Ok(c)

\* Mutant: an unrecognised command-line mode is ignored.
ApplyMode_ignore_unknown(c, arg) ==
    IF arg.some /\ MigMode_from_str(arg.val).ok
    THEN Ok([c EXCEPT !.migrate = set_mig_mode(@, MigMode_from_str(arg.val).val)])
    ELSE Ok(c)

\* config.rs:186-190: the command-line mode overrides; an unrecognised
\* value is returned as from_str's error.
ApplyMode(c, arg) ==
    IF arg.some
    THEN IF MigMode_from_str(arg.val).ok
         THEN Ok([c EXCEPT !.migrate = set_mig_mode(@, MigMode_from_str(arg.val).val)])
         ELSE MigMode_from_str(arg.val)
    ELSE Ok(c)

OverrideMode ==
    /\ cpc = "mode"
    /\ LET r == ApplyMode(config, argMode) IN
       IF r.ok
       THEN config' = r.val /\ cpc' = "image" /\ cres' = cres
       ELSE config' = config /\ cpc' = "done" /\ cres' = r
    /\ UNCHANGED <<fs, displayed, argWorkDir, argConfig, argMode, argImage,
                   work_dir, tmp_work_dir, config_path, doc, validated,
                   fiVars, typeVars,
                   cmdVars, netVars, jsonVars, dgVars, parseVars>>

\* config.rs:194-198: the command-line image overrides.
ApplyImage(c, arg) ==
    IF arg.some THEN [c EXCEPT !.balena.image = arg] ELSE c

OverrideImage ==
    /\ cpc = "image"
    /\ config' = ApplyImage(config, argImage)
    /\ cpc' = "check"
    /\ UNCHANGED <<fs, displayed, argWorkDir, argConfig, argMode, argImage,
                   work_dir, tmp_work_dir, config_path, doc, validated, cres,
                   fiVars, typeVars,
                   cmdVars, netVars, jsonVars, dgVars, parseVars>>

\* config.rs:200-202: validate, then return the configuration.
CheckAndReturn ==
    /\ cpc = "check"
    /\ \E env \in CheckEnvs :
           LET r == Config_check(config, env) IN
           /\ validated' = r.seen
           /\ cres' = IF r.res.ok THEN Ok(config) ELSE r.res
    /\ cpc' = "done"
    /\ UNCHANGED <<fs, displayed, argWorkDir, argConfig, argMode, argImage,
                   work_dir, tmp_work_dir, config_path, doc, config,
                   fiVars, typeVars,
                   cmdVars, netVars, jsonVars, dgVars, parseVars>>

----------------------------------------------------------------------------
(* FileInfo::new, step by step, in a file system other processes change    *)

\* How many files the environment removes during one call.
MaxRemovals == 1

FiAlways   == {<<>>, <<"home">>}
FiOptional == {<<"home", "work">>,
               <<"home", "k.img">>,
               <<"home", "work", "k.img">>}
FiFsChoices == {f \in {FiAlways \cup o : o \in SUBSET FiOptional} : FsClosed(f)}

FileArgs    == {RelPath(<<"k.img">>), RelPath(<<".", "k.img">>),
                AbsPath(<<"home", "work", "k.img">>)}
WorkDirs    == {AbsPath(<<"home", "work">>), RelPath(<<"work">>)}

\* metadata.len() of the files of the model.
FileSize(c) == IF c = <<"home", "k.img">> THEN 0 ELSE 4096

\* Option<FileInfo>.
SomeFileInfo(p, n) == [some |-> TRUE,  val |-> [path |-> p, size |-> n]]
NoFileInfo         == [some |-> FALSE, val |-> [path |-> RelPath(<<>>), size |-> 0]]

FiIdle ==
    /\ fiFile = RelPath(<<>>) /\ fiWorkDir = RelPath(<<>>)
    /\ fpc = "idle"
    /\ foundGiven = FALSE /\ foundWork = FALSE
    /\ checked_path = RelPath(<<>>) /\ abs_path = RelPath(<<>>)
    /\ removals = 0
    /\ fres = NoResult

\* Mutant: a name that is not there as given is absent, the work dir is
\* not searched.
FiCheckGiven_no_search ==
    /\ fpc = "start"
    /\ foundGiven' = file_exists(fiFile, fs)
    /\ IF file_exists(fiFile, fs)
       THEN checked_path' = fiFile /\ fpc' = "canonicalize" /\ fres' = fres
       ELSE checked_path' = checked_path /\ fpc' = "done"
            /\ fres' = Ok(NoFileInfo)
    /\ UNCHANGED <<fs, displayed, fiFile, fiWorkDir, foundWork, abs_path,
                   removals, cfgVars, typeVars,
                   cmdVars, netVars, jsonVars, dgVars, parseVars>>

\* file_info.rs:80-83 and 91-94: the name as given; an absolute name that
\* is not there is absent.
FiCheckGiven ==
    /\ fpc = "start"
    /\ foundGiven' = file_exists(fiFile, fs)
    /\ IF file_exists(fiFile, fs)
       THEN checked_path' = fiFile /\ fpc' = "canonicalize" /\ fres' = fres
       ELSE IF ~is_absolute(fiFile)
            THEN checked_path' = checked_path /\ fpc' = "search" /\ fres' = fres
            ELSE checked_path' = checked_path /\ fpc' = "done"
                 /\ fres' = Ok(NoFileInfo)
    /\ UNCHANGED <<fs, displayed, fiFile, fiWorkDir, foundWork, abs_path,
                   removals, cfgVars, typeVars,
                   cmdVars, netVars, jsonVars, dgVars, parseVars>>

\* file_info.rs:84-90: the name joined to the work dir.
FiCheckWorkDir ==
    /\ fpc = "search"
    /\ LET search_path == join(fiWorkDir, fiFile) IN
       /\ foundWork' = PathExists(search_path, fs)
       /\ IF PathExists(search_path, fs)
          THEN checked_path' = search_path /\ fpc' = "canonicalize" /\ fres' = fres
          ELSE checked_path' = checked_path /\ fpc' = "done"
               /\ fres' = Ok(NoFileInfo)
    /\ UNCHANGED <<fs, displayed, fiFile, fiWorkDir, foundGiven, abs_path,
                   removals, cfgVars, typeVars,
                   cmdVars, netVars, jsonVars, dgVars, parseVars>>

\* file_info.rs:97: canonicalize().unwrap() panics when it fails.
FiCanonicalize ==
    /\ fpc = "canonicalize"
    /\ LET r == canonicalize(checked_path, fs) IN
       IF r.ok
       THEN abs_path' = r.val /\ fpc' = "metadata" /\ fres' = fres
       ELSE abs_path' = abs_path /\ fpc' = "done" /\ fres' = Panic
    /\ UNCHANGED <<fs, displayed, fiFile, fiWorkDir, foundGiven, foundWork,
                   checked_path, removals, cfgVars, typeVars,
                   cmdVars, netVars, jsonVars, dgVars, parseVars>>

\* file_info.rs:98-106: metadata() with `?`, then the FileInfo.
FiMetadata ==
    /\ fpc = "metadata"
    /\ fres' = IF PathExists(abs_path, fs)
               THEN Ok(SomeFileInfo(abs_path, FileSize(abs_path.comps)))
               ELSE Err("Upstream")
    /\ fpc' = "done"
    /\ UNCHANGED <<fs, displayed, fiFile, fiWorkDir, foundGiven, foundWork,
                   checked_path, abs_path, removals, cfgVars, typeVars,
                   cmdVars, netVars, jsonVars, dgVars, parseVars>>

\* Another process removes a file while the call runs.
EnvRemove ==
    /\ fpc \in {"start", "search", "canonicalize", "metadata"}
    /\ removals < MaxRemovals
    /\ \E f \in fs \ FiAlways :
           /\ \A g \in fs : Len(g) > Len(f) => SubSeq(g, 1, Len(f)) # f
           /\ fs' = fs \ {f}
    /\ removals' = removals + 1
    /\ UNCHANGED <<displayed, fiFile, fiWorkDir, fpc, foundGiven, foundWork,
                   checked_path, abs_path, fres, cfgVars, typeVars,
                   cmdVars, netVars, jsonVars, dgVars, parseVars>>

----------------------------------------------------------------------------
(* FileInfo::is_type and FileInfo::expect_type                             *)

\* How many tokens a description printed by the utility has.
MaxDescLen == 3

\* enum FileType (file_info.rs:31).
FileTypes == {"OSImage", "KernelAMD64", "KernelARMHF", "KernelI386",
              "InitRD", "Json", "Text", "DTB"}

\* FileType::get_descr (file_info.rs:43).
get_descr(t) ==
    CASE t = "OSImage"     -> "balena OS image"
      [] t = "KernelAMD64" -> "balena migrate kernel image for AMD64"
      [] t = "KernelARMHF" -> "balena migrate kernel image for ARMHF"
      [] t = "KernelI386"  -> "balena migrate kernel image for I386"
      [] t = "InitRD"      -> "balena migrate initramfs"
      [] t = "DTB"         -> "Device Tree Blob"
      [] t = "Json"        -> "balena config.json file"
      [] t = "Text"        -> "Text file"

\* The utility's output is a sequence of tokens: the phrases the patterns
\* look for, a line break, and other text.
NL == "\n"
GZ == "(gzip compressed data"
HeadTokens == {"DOS/MBR boot sector", "x86 boot sector", "ASCII cpio archive",
               "ASCII text", "Linux kernel x86 boot executable bzImage",
               "Linux kernel ARM boot executable zImage",
               "Linux kernel i386 boot executable bzImage",
               "Device Tree Blob", "data"}
TailTokens == {GZ, ")", NL, ", from Unix", "data"}
Tokens     == HeadTokens \cup TailTokens

Outputs ==
    {<<>>} \cup
    UNION {{o \in [1..n -> Tokens] : \A i \in 2..n : o[i] \in TailTokens}
           : n \in 1..MaxDescLen}

\* str::trim: leading and trailing white space removed.
RECURSIVE TrimStart(_)
TrimStart(o) ==
    IF o # <<>> /\ Head(o) = NL THEN TrimStart(Tail(o)) ELSE o
RECURSIVE TrimEnd(_)
TrimEnd(o) ==
    IF o # <<>> /\ o[Len(o)] = NL THEN TrimEnd(SubSeq(o, 1, Len(o) - 1)) ELSE o
Trim(o) == TrimEnd(TrimStart(o))

\* common::call (common.rs:111): an Upstream error when the command cannot
\* be executed, else the (trimmed) output and the exit status.  cmds.call
\* adds the error of a command that is not available.
call(run, trim_stdout) ==
    IF run.err # "" THEN Err(run.err)
    ELSE Ok([stdout |-> IF trim_stdout THEN Trim(run.raw) ELSE run.raw,
             status |-> run.code])

\* The *_FTYPE_REGEX patterns (file_info.rs:15-24) on a token sequence:
\* `.` matches no line break, `^` and `$` are the ends of the text.
OneLine(d) == \A i \in 1..Len(d) : d[i] # NL
StartsWith(d, heads) == Len(d) >= 1 /\ d[1] \in heads
EndsGzip(d) ==
    /\ Len(d) >= 3
    /\ d[Len(d)] = ")"
    /\ \E i \in 2..(Len(d) - 1) : d[i] = GZ

OS_IMG_FTYPE_RE(d) ==
    OneLine(d) /\ StartsWith(d, {"DOS/MBR boot sector", "x86 boot sector"})
    /\ EndsGzip(d)
INITRD_FTYPE_RE(d) ==
    OneLine(d) /\ StartsWith(d, {"ASCII cpio archive"}) /\ EndsGzip(d)
OS_CFG_FTYPE_RE(d) == OneLine(d) /\ StartsWith(d, {"ASCII text"})
KERNEL_AMD64_FTYPE_RE(d) ==
    OneLine(d) /\ StartsWith(d, {"Linux kernel x86 boot executable bzImage",
                                 "x86 boot sector"})
KERNEL_ARMHF_FTYPE_RE(d) ==
    OneLine(d) /\ StartsWith(d, {"Linux kernel ARM boot executable zImage"})
KERNEL_I386_FTYPE_RE(d) ==
    OneLine(d) /\ StartsWith(d, {"Linux kernel i386 boot executable bzImage"})
TEXT_FTYPE_RE(d) == OneLine(d) /\ StartsWith(d, {"ASCII text"})
DTB_FTYPE_RE(d)  == OneLine(d) /\ StartsWith(d, {"Device Tree Blob", "data"})

\* Mutant: the AMD64 kernel is matched with the pattern of the OS image.
MatchType_amd64_as_image(t, d) ==
    CASE t = "OSImage"     -> OS_IMG_FTYPE_RE(d)
      [] t = "InitRD"      -> INITRD_FTYPE_RE(d)
      [] t = "KernelARMHF" -> KERNEL_ARMHF_FTYPE_RE(d)
      [] t = "KernelAMD64" -> OS_IMG_FTYPE_RE(d)
      [] t = "KernelI386"  -> KERNEL_I386_FTYPE_RE(d)
      [] t = "Json"        -> OS_CFG_FTYPE_RE(d)
      [] t = "Text"        -> TEXT_FTYPE_RE(d)
      [] t = "DTB"         -> DTB_FTYPE_RE(d)

\* file_info.rs:156-165.
MatchType(t, d) ==
    CASE t = "OSImage"     -> OS_IMG_FTYPE_RE(d)
      [] t = "InitRD"      -> INITRD_FTYPE_RE(d)
      [] t = "KernelARMHF" -> KERNEL_ARMHF_FTYPE_RE(d)
      [] t = "KernelAMD64" -> KERNEL_AMD64_FTYPE_RE(d)
      [] t = "KernelI386"  -> KERNEL_I386_FTYPE_RE(d)
      [] t = "Json"        -> OS_CFG_FTYPE_RE(d)
      [] t = "Text"        -> TEXT_FTYPE_RE(d)
      [] t = "DTB"         -> DTB_FTYPE_RE(d)

\* Mutant: an empty description is matched like any other.
is_type_no_empty_check(path, run, t) ==
    LET cmd_res == call(run, TRUE) IN
    IF ~cmd_res.ok THEN cmd_res
    ELSE IF cmd_res.val.status # 0
         THEN ErrMsg("InvParam", <<"new: failed determine type for file", path>>)
         ELSE Ok(MatchType(t, cmd_res.val.stdout))

\* FileInfo::is_type (file_info.rs:125).
is_type(path, run, t) ==
    LET cmd_res == call(run, TRUE) IN
    IF ~cmd_res.ok THEN cmd_res
    ELSE IF cmd_res.val.status # 0 \/ cmd_res.val.stdout = <<>>
         THEN ErrMsg("InvParam", <<"new: failed determine type for file", path>>)
         ELSE Ok(MatchType(t, cmd_res.val.stdout))

\* The message of expect_type (file_info.rs:112).
ExpectMessage(path, t) ==
    <<"Could not determine expected file type", get_descr(t), "for file", path>>

\* Mutant: the test of is_type's answer is inverted.
expect_type_inverted(path, run, t) ==
    LET r == is_type(path, run, t) IN
    IF ~r.ok THEN r
    ELSE IF r.val THEN ErrMsg("InvParam", ExpectMessage(path, t))
         ELSE Ok(<<>>)

\* FileInfo::expect_type (file_info.rs:110).
expect_type(path, run, t) ==
    LET r == is_type(path, run, t) IN
    IF ~r.ok THEN r
    ELSE IF ~r.val THEN ErrMsg("InvParam", ExpectMessage(path, t))
         ELSE Ok(<<>>)

\* Mutant: without the utility the file is assumed to match.
is_type_windows_assume_match(path, t) == Ok(TRUE)

\* FileInfo::is_type of the windows build (file_info.rs:184).
is_type_windows(path, t) == Err("NotImpl")

\* FileInfo::expect_type of the windows build (file_info.rs:169).
expect_type_windows(path, t) ==
    LET r == is_type_windows(path, t) IN
    IF ~r.ok THEN r
    ELSE IF ~r.val THEN ErrMsg("InvParam", ExpectMessage(path, t))
         ELSE Ok(<<>>)

\* What running the utility can do: it cannot be run, or it prints a
\* description and exits.
Runs ==
    [err : {"Upstream", "NotFound"}, code : {0}, raw : {<<>>}]
    \cup [err : {""}, code : {0, 1}, raw : Outputs]
NoRun == [err |-> "", code |-> 0, raw |-> <<>>]

TypePaths == {AbsPath(<<"home", "k.img">>), AbsPath(<<"home", "work", "k.img">>)}

TypeIdle ==
    /\ target_os = "linux"
    /\ tpc = "off" /\ tOp = "none"
    /\ tPath = RelPath(<<>>) /\ tType = "none"
    /\ tCall = NoRun /\ tIs = NoResult /\ tExpect = NoResult

CallIsType ==
    /\ target_os = "linux"
    /\ tpc = "idle"
    /\ tOp' = "is_type"
    /\ tIs' = is_type(tPath, tCall, tType)
    /\ tpc' = "done"
    /\ UNCHANGED <<fs, displayed, target_os, tPath, tType, tCall, tExpect,
                   cfgVars, fiVars,
                   cmdVars, netVars, jsonVars, dgVars, parseVars>>

CallIsTypeWindows ==
    /\ target_os = "windows"
    /\ tpc = "idle"
    /\ tOp' = "is_type"
    /\ tIs' = is_type_windows(tPath, tType)
    /\ tpc' = "done"
    /\ UNCHANGED <<fs, displayed, target_os, tPath, tType, tCall, tExpect,
                   cfgVars, fiVars,
                   cmdVars, netVars, jsonVars, dgVars, parseVars>>

CallExpectTypeWindows ==
    /\ target_os = "windows"
    /\ tpc = "idle"
    /\ tOp' = "expect_type"
    /\ tIs' = is_type_windows(tPath, tType)
    /\ tExpect' = expect_type_windows(tPath, tType)
    /\ displayed' = IF is_type_windows(tPath, tType).ok
                       /\ ~is_type_windows(tPath, tType).val
                    THEN Append(displayed, ExpectMessage(tPath, tType))
                    ELSE displayed
    /\ tpc' = "done"
    /\ UNCHANGED <<fs, target_os, tPath, tType, tCall, cfgVars, fiVars,
                   cmdVars, netVars, jsonVars, dgVars, parseVars>>

CallExpectType ==
    /\ target_os = "linux"
    /\ tpc = "idle"
    /\ tOp' = "expect_type"
    /\ tIs' = is_type(tPath, tCall, tType)
    /\ tExpect' = expect_type(tPath, tCall, tType)
    /\ displayed' = IF is_type(tPath, tCall, tType).ok
                       /\ ~is_type(tPath, tCall, tType).val
                    THEN Append(displayed, ExpectMessage(tPath, tType))
                    ELSE displayed
    /\ tpc' = "done"
    /\ UNCHANGED <<fs, target_os, tPath, tType, tCall, cfgVars, fiVars,
                   cmdVars, netVars, jsonVars, dgVars, parseVars>>

----------------------------------------------------------------------------
(* linux::util::call_cmd and its lazily initialised command table          *)

\* How many threads call call_cmd, and how many calls each of them makes.
MaxThreads == 2
MaxCalls == 2

Threads == 1..MaxThreads

\* The command names (util.rs:14-22).
WHEREIS_CMD == "whereis"
DF_CMD == "df"
LSBLK_CMD == "lsblk"
MOUNT_CMD == "mount"
FILE_CMD == "file"
UNAME_CMD == "uname"
MOKUTIL_CMD == "mokutil"
GRUB_INSTALL_CMD == "grub-install"

\* util.rs:25 and util.rs:33, in the order the initializer walks them.
REQUIRED_CMDS == <<DF_CMD, LSBLK_CMD, MOUNT_CMD, FILE_CMD, UNAME_CMD>>
OPTIONAL_CMDS == <<MOKUTIL_CMD, GRUB_INSTALL_CMD>>

Range(q) == {q[i] : i \in 1..Len(q)}
CheckedCmds == REQUIRED_CMDS \o OPTIONAL_CMDS

\* Where a command is installed.
BinPath(c) == "/usr/bin/" \o c

\* What `whereis -b cmd` can do: it cannot be run, it exits non-zero, it
\* prints nothing, it prints the name only, or the name and a location.
WhereisOutcomes == {"norun", "fails", "silent", "nameonly", "found"}
WhereisRun(c, o) ==
    CASE o = "norun"    -> [err |-> "Upstream", code |-> 0, raw |-> <<>>]
      [] o = "fails"    -> [err |-> "", code |-> 1, raw |-> <<>>]
      [] o = "silent"   -> [err |-> "", code |-> 0, raw |-> <<NL>>]
      [] o = "nameonly" -> [err |-> "", code |-> 0, raw |-> <<c \o ":", NL>>]
      [] o = "found"    -> [err |-> "", code |-> 0,
                            raw |-> <<c \o ":", BinPath(c), NL>>]

\* Mutant: the first word of the output is taken for the location.
whereis_first_word(c, run) ==
    LET cmd_res == call(run, TRUE) IN
    IF ~cmd_res.ok THEN ErrMsg("Upstream", <<"whereis: failed for", c>>)
    ELSE IF cmd_res.val.status = 0
         THEN IF cmd_res.val.stdout = <<>>
              THEN ErrMsg("InvParam", <<"whereis: no command output for", c>>)
              ELSE Ok(cmd_res.val.stdout[1])
         ELSE ErrMsg("ExecProcess", <<"whereis: command failed for", c>>)

\* util::whereis (util.rs:165): the second word of the output.
whereis(c, run) ==
    LET cmd_res == call(run, TRUE) IN
    IF ~cmd_res.ok THEN ErrMsg("Upstream", <<"whereis: failed for", c>>)
    ELSE IF cmd_res.val.status = 0
         THEN IF cmd_res.val.stdout = <<>>
              THEN ErrMsg("InvParam", <<"whereis: no command output for", c>>)
              ELSE IF Len(cmd_res.val.stdout) >= 2
                   THEN Ok(cmd_res.val.stdout[2])
                   ELSE ErrMsg("NotFound", <<"whereis: command not found:", c>>)
         ELSE ErrMsg("ExecProcess", <<"whereis: command failed for", c>>)

\* The environments of the model: at most one required command is missing.
CmdEnvs ==
    {e \in [Range(CheckedCmds) -> WhereisOutcomes] :
        Cardinality({c \in Range(REQUIRED_CMDS) : e[c] # "found"}) <= 1}

\* The commands the threads ask for: checked ones and one that is not.
CalledCmds == {FILE_CMD, MOKUTIL_CMD, GRUB_INSTALL_CMD, "ls"}

\* What running a located command can do.
CmdRuns == {[err |-> "Upstream", code |-> 0, raw |-> <<>>],
            [err |-> "", code |-> 0, raw |-> <<"data", NL>>]}

\* Option<String> of the table, and the table before it is built.
NoTable == <<>>
EmptyMap == [c \in {} |-> NoStr]
Insert(map, k, v) == [x \in DOMAIN map \cup {k} |-> IF x = k THEN v ELSE map[x]]

CmdIdle ==
    /\ cmdEnv = <<>>
    /\ once = "off" /\ CMD_PATH = NoTable
    /\ lookups = <<>> /\ spawned = {}
    /\ cmdPc = <<>> /\ cmdArg = <<>> /\ cmdTrim = <<>> /\ cmdMap = <<>>
    /\ cmdPos = <<>> /\ cmdSeen = <<>> /\ cmdCalls = <<>> /\ cmdRes = <<>>

\* Mutant: the static is initialised by every thread that finds it unset.
OnceMayRun_unguarded(state) == state \in {"new", "running"}

\* lazy_static! (util.rs:53): Once::call_once runs the initializer in the
\* first thread that gets there.
OnceMayRun(state) == state = "new"

\* call_cmd is entered (util.rs:48).
CmdEnter(t) ==
    /\ cmdPc[t] \in {"idle", "returned"}
    /\ cmdCalls[t] < MaxCalls
    /\ \E c \in CalledCmds, trim \in BOOLEAN :
          /\ cmdArg' = [cmdArg EXCEPT ![t] = c]
          /\ cmdTrim' = [cmdTrim EXCEPT ![t] = trim]
    /\ cmdCalls' = [cmdCalls EXCEPT ![t] = @ + 1]
    /\ cmdRes' = [cmdRes EXCEPT ![t] = NoResult]
    /\ cmdSeen' = [cmdSeen EXCEPT ![t] = NoTable]
    /\ cmdPc' = [cmdPc EXCEPT ![t] = "deref"]
    /\ UNCHANGED <<fs, displayed, cmdEnv, once, CMD_PATH, lookups, spawned,
                   cmdMap, cmdPos, cfgVars, fiVars, typeVars, netVars, jsonVars, dgVars, parseVars>>

\* The dereference of CMD_PATH (util.rs:81): the first thread starts the
\* initializer, a thread that comes while it runs waits, a thread that
\* comes after it panicked panics on the poisoned Once.
CmdDeref(t) ==
    /\ cmdPc[t] = "deref"
    /\ \/ /\ OnceMayRun(once)
          /\ once' = "running"
          /\ cmdMap' = [cmdMap EXCEPT ![t] = EmptyMap]
          /\ cmdPos' = [cmdPos EXCEPT ![t] = 0]
          /\ cmdPc' = [cmdPc EXCEPT ![t] = "init"]
          /\ UNCHANGED cmdRes
       \/ /\ once = "done"
          /\ cmdPc' = [cmdPc EXCEPT ![t] = "get"]
          /\ UNCHANGED <<once, cmdMap, cmdPos, cmdRes, dgVars, parseVars>>
       \/ /\ once = "poisoned"
          /\ cmdPc' = [cmdPc EXCEPT ![t] = "panicked"]
          /\ cmdRes' = [cmdRes EXCEPT ![t] = Panic]
          /\ UNCHANGED <<once, cmdMap, cmdPos, dgVars, parseVars>>
    /\ UNCHANGED <<fs, displayed, cmdEnv, CMD_PATH, lookups, spawned, cmdArg,
                   cmdTrim, cmdSeen, cmdCalls, cfgVars, fiVars, typeVars,
                   netVars, jsonVars, dgVars, parseVars>>

\* One turn of the loops of the initializer (util.rs:56-75): whereis for the
\* next command; a required command that is not found is logged and panics,
\* an optional one is recorded as None.  After the last command the map
\* becomes the value of the static.
CmdInitStep(t) ==
    /\ cmdPc[t] = "init"
    /\ LET i == cmdPos[t] + 1
           c == CheckedCmds[i]
           r == whereis(c, WhereisRun(c, cmdEnv[c]))
           map == Insert(cmdMap[t], c, IF r.ok THEN SomeStr(r.val) ELSE NoStr)
       IN
       /\ lookups' = [lookups EXCEPT ![c] = @ + 1]
       /\ IF i <= Len(REQUIRED_CMDS) /\ ~r.ok
          THEN /\ displayed' = Append(displayed,
                                      <<"cannot find required command", c>>)
               /\ once' = "poisoned"
               /\ cmdPc' = [cmdPc EXCEPT ![t] = "panicked"]
               /\ cmdRes' = [cmdRes EXCEPT ![t] = Panic]
               /\ UNCHANGED <<CMD_PATH, cmdMap, cmdPos, dgVars, parseVars>>
          ELSE /\ cmdMap' = [cmdMap EXCEPT ![t] = map]
               /\ cmdPos' = [cmdPos EXCEPT ![t] = i]
               /\ IF i = Len(CheckedCmds)
                  THEN /\ CMD_PATH' = map
                       /\ once' = "done"
                       /\ cmdPc' = [cmdPc EXCEPT ![t] = "get"]
                  ELSE UNCHANGED <<CMD_PATH, once, cmdPc, dgVars, parseVars>>
               /\ UNCHANGED <<displayed, cmdRes, dgVars, parseVars>>
    /\ UNCHANGED <<fs, cmdEnv, spawned, cmdArg, cmdTrim, cmdSeen, cmdCalls,
                   cfgVars, fiVars, typeVars, netVars, jsonVars, dgVars, parseVars>>

\* util.rs:81-89: the look-up in the table and the call of the command.
CmdGet(t) ==
    /\ cmdPc[t] = "get"
    /\ cmdSeen' = [cmdSeen EXCEPT ![t] = CMD_PATH]
    /\ IF cmdArg[t] \in DOMAIN CMD_PATH
       THEN IF CMD_PATH[cmdArg[t]].some
            THEN /\ \E run \in CmdRuns :
                       cmdRes' = [cmdRes EXCEPT ![t] = call(run, cmdTrim[t])]
                 /\ spawned' = spawned \cup {cmdArg[t]}
            ELSE /\ cmdRes' = [cmdRes EXCEPT ![t] =
                        ErrMsg("NotFound",
                               <<"call_cmd:", cmdArg[t], "is not available">>)]
                 /\ UNCHANGED spawned
       ELSE /\ cmdRes' = [cmdRes EXCEPT ![t] =
                   ErrMsg("InvParam",
                          <<"call_cmd:", cmdArg[t],
                            "is not in the list of checked commands">>)]
            /\ UNCHANGED spawned
    /\ cmdPc' = [cmdPc EXCEPT ![t] = "returned"]
    /\ UNCHANGED <<fs, displayed, cmdEnv, once, CMD_PATH, lookups, cmdArg,
                   cmdTrim, cmdMap, cmdPos, cmdCalls, cfgVars, fiVars,
                   typeVars, netVars, jsonVars, dgVars, parseVars>>

----------------------------------------------------------------------------
(* common::check_tcp_connect                                               *)

\* How many addresses name resolution returns at most.
MaxAddrs == 2

\* Host names, socket addresses (without the port) and ports of the model.
Hosts == {"api.example.com", "vpn.example.com"}
Addrs == {"10.0.0.1", "10.0.0.2"}
Ports == {443, 8080}

\* url.to_socket_addrs(): an error, or the addresses in the resolver's order.
AddrLists == UNION {[1..n -> Addrs] : n \in 0..MaxAddrs}
Resolutions == {Err("Upstream")} \cup {Ok(l) : l \in AddrLists}

\* TcpStream::connect_timeout: connected, refused, or no answer in time.
ConnectOutcomes == {"ok", "refused", "timeout"}

\* What one call did: its result, the connections it attempted and the
\* connections it shut down.
Probe(r, a, s) == [res |-> r, attempts |-> a, shutdowns |-> s]

\* Mutant: the addresses are tried in turn until one connects.
RECURSIVE TryAll(_, _, _)
TryAll(l, port, reach) ==
    IF l = <<>> THEN Probe(Err("Upstream"), <<>>, <<>>)
    ELSE IF reach[Head(l)] = "ok"
         THEN Probe(Ok(<<>>), <<<<Head(l), port>>>>, <<<<Head(l), port>>>>)
         ELSE LET rest == TryAll(Tail(l), port, reach) IN
              Probe(rest.res, <<<<Head(l), port>>>> \o rest.attempts, rest.shutdowns)

check_tcp_connect_try_all(host, port, timeout, resolve, reach) ==
    LET addrs_iter == resolve[host] IN
    IF ~addrs_iter.ok
    THEN Probe(ErrMsg("Upstream", <<"failed to resolve host address", host>>),
               <<>>, <<>>)
    ELSE IF addrs_iter.val # <<>>
         THEN TryAll(addrs_iter.val, port, reach)
         ELSE Probe(ErrMsg("InvState",
                           <<"no results from name resolution for", host>>),
                    <<>>, <<>>)

\* common::check_tcp_connect (common.rs:137): resolve host:port, connect to
\* the first address with the timeout, shut the connection down.
check_tcp_connect(host, port, timeout, resolve, reach) ==
    LET addrs_iter == resolve[host] IN
    IF ~addrs_iter.ok
    THEN Probe(ErrMsg("Upstream", <<"failed to resolve host address", host>>),
               <<>>, <<>>)
    ELSE IF addrs_iter.val # <<>>
         THEN LET sock_addr == <<Head(addrs_iter.val), port>> IN
              IF reach[sock_addr[1]] = "ok"
              THEN Probe(Ok(<<>>), <<sock_addr>>, <<sock_addr>>)
              ELSE Probe(ErrMsg("Upstream", <<"failed to connect to", host>>),
                         <<sock_addr>>, <<>>)
         ELSE Probe(ErrMsg("InvState",
                           <<"no results from name resolution for", host>>),
                    <<>>, <<>>)

\* The timeout the callers pass, in seconds.
CheckTimeout == 20

CallCheckTcpConnect ==
    /\ npc = "idle"
    /\ LET p == check_tcp_connect(netHost, netPort, CheckTimeout,
                                  netResolve, netReach) IN
       /\ nres' = p.res
       /\ attempts' = attempts \o p.attempts
       /\ shutdowns' = shutdowns \o p.shutdowns
    /\ npc' = "done"
    /\ UNCHANGED <<fs, displayed, netResolve, netReach, netHost, netPort,
                   cfgVars, fiVars, typeVars, cmdVars, jsonVars, dgVars, parseVars>>

NetIdle ==
    /\ netResolve = <<>> /\ netReach = <<>>
    /\ netHost = "" /\ netPort = 0
    /\ attempts = <<>> /\ shutdowns = <<>>
    /\ npc = "off" /\ nres = NoResult

----------------------------------------------------------------------------
(* BalenaCfgJson: the provisioning document config.json                    *)

\* serde_json::Value: the shape t, and the string s, the number n or the
\* items l that a value of that shape holds.
JString(x) == [t |-> "String", s |-> x,  n |-> 0, l |-> <<>>]
JNumber(k) == [t |-> "Number", s |-> "", n |-> k, l |-> <<>>]
JBool(b)   == [t |-> "Bool",   s |-> "", n |-> IF b THEN 1 ELSE 0, l |-> <<>>]
JArray(q)  == [t |-> "Array",  s |-> "", n |-> 0, l |-> q]
JNull      == [t |-> "Null",   s |-> "", n |-> 0, l |-> <<>>]

\* Value::as_str and Value::as_u64: Some for a string, and for a number that
\* is not negative.
as_str(value) == IF value.t = "String" THEN SomeStr(value.s) ELSE NoStr
as_u64(value) ==
    IF value.t = "Number" /\ value.n >= 0
    THEN [some |-> TRUE, val |-> value.n] ELSE [some |-> FALSE, val |-> 0]

\* The decimal text of a number.
Digit(d) ==
    CASE d = 0 -> "0" [] d = 1 -> "1" [] d = 2 -> "2" [] d = 3 -> "3"
      [] d = 4 -> "4" [] d = 5 -> "5" [] d = 6 -> "6" [] d = 7 -> "7"
      [] d = 8 -> "8" [] d = 9 -> "9"
RECURSIVE NatText(_)
NatText(n) == IF n < 10 THEN Digit(n) ELSE NatText(n \div 10) \o Digit(n % 10)
NumText(n) == IF n < 0 THEN "-" \o NatText(0 - n) ELSE NatText(n)

\* A string literal of JSON text.
Quote(x) == "\"" \o x \o "\""

\* The JSON text of a value, as the sequence of its tokens.
RECURSIVE JsonTokens(_), JsonItems(_, _)
JsonItems(l, i) ==
    IF i > Len(l) THEN <<>>
    ELSE (IF i = 1 THEN <<>> ELSE <<",">>) \o JsonTokens(l[i]) \o JsonItems(l, i + 1)
JsonTokens(value) ==
    CASE value.t = "String" -> <<Quote(value.s)>>
      [] value.t = "Number" -> <<NumText(value.n)>>
      [] value.t = "Bool"   -> <<IF value.n = 1 THEN "true" ELSE "false">>
      [] value.t = "Null"   -> <<"null">>
      [] value.t = "Array"  -> <<"[">> \o JsonItems(value.l, 1) \o <<"]">>

\* Concatenation of the tokens of a text.
RECURSIVE Concat(_)
Concat(toks) == IF toks = <<>> THEN "" ELSE Head(toks) \o Concat(Tail(toks))

\* impl Display for Value (Value::to_string): the JSON text of the value.
Value_to_string(value) == Concat(JsonTokens(value))

\* The keys the program reads, and one it does not know.
HOSTNAME == "hostname"
JsonKeys == {HOSTNAME, "applicationId", "apiKey", "apiEndpoint", "vpnEndpoint",
             "vpnPort", "deviceType"}
UnknownKey == "custom"

\* Mutant: a value of another shape is returned as its JSON text.
get_str_val_any_shape(cfg, name) ==
    IF name \in DOMAIN cfg
    THEN Ok(IF cfg[name].t = "String" THEN cfg[name].s
            ELSE Value_to_string(cfg[name]))
    ELSE ErrMsg("NotFound", <<"Key could not be found in config.json:", name>>)

\* BalenaCfgJson::get_str_val (balena_cfg_json.rs:142).
get_str_val(cfg, name) ==
    IF name \in DOMAIN cfg
    THEN IF as_str(cfg[name]).some
         THEN Ok(as_str(cfg[name]).val)
         ELSE ErrMsg("InvParam",
                     <<"Invalid type encountered for", name, "expected String">>)
    ELSE ErrMsg("NotFound", <<"Key could not be found in config.json:", name>>)

\* BalenaCfgJson::get_uint_val (balena_cfg_json.rs:163).
get_uint_val(cfg, name) ==
    IF name \in DOMAIN cfg
    THEN IF as_u64(cfg[name]).some
         THEN Ok(as_u64(cfg[name]).val)
         ELSE ErrMsg("InvParam",
                     <<"Invalid type encountered for", name, "expected uint">>)
    ELSE ErrMsg("NotFound", <<"Key could not be found in config.json:", name>>)

\* The typed getters (balena_cfg_json.rs:184-223).
get_hostname(cfg)     == get_str_val(cfg, HOSTNAME)
get_app_id(cfg)       == get_uint_val(cfg, "applicationId")
get_api_key(cfg)      == get_str_val(cfg, "apiKey")
get_api_endpoint(cfg) == get_str_val(cfg, "apiEndpoint")
get_vpn_endpoint(cfg) == get_str_val(cfg, "vpnEndpoint")
get_vpn_port(cfg)     == get_uint_val(cfg, "vpnPort")
get_device_type(cfg)  == get_str_val(cfg, "deviceType")

Getters == {"get_hostname", "get_app_id", "get_api_key", "get_api_endpoint",
            "get_vpn_endpoint", "get_vpn_port", "get_device_type"}
Getter(g, cfg) ==
    CASE g = "get_hostname"     -> get_hostname(cfg)
      [] g = "get_app_id"       -> get_app_id(cfg)
      [] g = "get_api_key"      -> get_api_key(cfg)
      [] g = "get_api_endpoint" -> get_api_endpoint(cfg)
      [] g = "get_vpn_endpoint" -> get_vpn_endpoint(cfg)
      [] g = "get_vpn_port"     -> get_vpn_port(cfg)
      [] g = "get_device_type"  -> get_device_type(cfg)

\* BalenaCfgJson::set_host_name (balena_cfg_json.rs:188): the new document,
\* the flag, and the Option<String> returned.
set_host_name(cfg, hostname) ==
    [config |-> Insert(cfg, HOSTNAME, JString(hostname)),
     modified |-> TRUE,
     ret |-> IF HOSTNAME \in DOMAIN cfg
             THEN SomeStr(Value_to_string(cfg[HOSTNAME])) ELSE NoStr]

\* The text of a URL with and without a port, and of a URL without a host.
Url(scheme, host) == scheme \o "://" \o host
UrlPort(scheme, host, port) == Url(scheme, host) \o ":" \o NatText(port)
UrlOpaque(scheme, rest) == scheme \o ":" \o rest

\* The documents the connectivity check is given: a complete one, and the
\* complete one with one key missing or of another value.
BaseDoc ==
    (HOSTNAME :> JString("old-host")) @@ ("applicationId" :> JNumber(7))
    @@ ("apiKey" :> JString("secret")) @@ ("deviceType" :> JString("raspberrypi3"))
    @@ ("apiEndpoint" :> JString(Url("https", "api.example.com")))
    @@ ("vpnEndpoint" :> JString("vpn.example.com")) @@ ("vpnPort" :> JNumber(443))

OtherValues(k) ==
    CASE k = HOSTNAME        -> {JNumber(5), JString("5"), JNull}
      [] k = "applicationId" -> {JNumber(0 - 1), JString("7"), JBool(TRUE)}
      [] k = "apiKey"        -> {JArray(<<JString("a"), JNumber(1)>>)}
      [] k = "deviceType"    -> {JBool(FALSE)}
      [] k = "apiEndpoint"   -> {JString(UrlPort("https", "api.example.com", 8080)),
                                 JString(UrlOpaque("mailto", "ops")),
                                 JString("api.example.com"), JNumber(1)}
      [] k = "vpnEndpoint"   -> {JString("api.example.com"), JArray(<<>>)}
      [] k = "vpnPort"       -> {JNumber(8080), JNumber(65979), JString("443"),
                                 JNumber(0 - 1)}

Remove(map, k) == [x \in DOMAIN map \ {k} |-> map[x]]

KnownDocs ==
    {BaseDoc} \cup {Remove(BaseDoc, k) : k \in JsonKeys}
    \cup UNION {{Insert(BaseDoc, k, v) : v \in OtherValues(k)} : k \in JsonKeys}

UnknownValues == {JArray(<<JString("true"), JBool(TRUE), JNull>>), JNumber(0)}

\* The documents config.json holds where the document is written back: one
\* known key of any of its values, or a host name and an unknown key.  They
\* are short, so that every order a write can list the keys in and every
\* number of bytes a failing write can leave is followed.
OneKeyDocs ==
    UNION {{(k :> v) : v \in {BaseDoc[k]} \cup OtherValues(k)} : k \in JsonKeys}

HostDoc == (HOSTNAME :> BaseDoc[HOSTNAME])

Docs_json ==
    OneKeyDocs \cup {Insert(HostDoc, UnknownKey, v) : v \in UnknownValues}

\* The order the file lists its keys in when the program starts.
KeysInOrder == <<"apiEndpoint", "apiKey", "applicationId", UnknownKey,
                 "deviceType", HOSTNAME, "vpnEndpoint", "vpnPort">>

\* The orders a HashMap may iterate its keys in: every arrangement of the
\* keys it holds, chosen anew at each iteration.
RECURSIVE Arrangements(_)
Arrangements(keys) ==
    IF keys = {} THEN {<<>>}
    ELSE UNION {{<<k>> \o rest : rest \in Arrangements(keys \ {k})} : k \in keys}
KeyOrders(cfg) == Arrangements(DOMAIN cfg)

\* serde_json::to_writer of the map: the members in the iteration order.
RECURSIVE Members(_, _, _, _)
Members(cfg, order, i, first) ==
    IF i > Len(order) THEN <<>>
    ELSE IF order[i] \in DOMAIN cfg
         THEN (IF first THEN <<>> ELSE <<",">>)
              \o <<Quote(order[i]), ":">> \o JsonTokens(cfg[order[i]])
              \o Members(cfg, order, i + 1, FALSE)
         ELSE Members(cfg, order, i + 1, first)
to_writer(cfg, order) == <<"{">> \o Members(cfg, order, 1, TRUE) \o <<"}">>

\* The strings and numbers the parser can meet in the texts of the model.
StringUniverse ==
    JsonKeys \cup {UnknownKey, "old-host", "new-host", "5", "7", "443", "a",
                   "true", "secret", "raspberrypi3", "vpn.example.com",
                   "api.example.com", Url("https", "api.example.com"),
                   UrlPort("https", "api.example.com", 8080),
                   UrlOpaque("mailto", "ops")}
NumberUniverse == {0 - 1, 0, 1, 5, 7, 443, 8080, 65979}

\* serde_json::from_reader: a value starting at token i of the text, and the
\* position after it.
Parsed(v, n) == [ok |-> TRUE, val |-> v, next |-> n]
NotParsed    == [ok |-> FALSE, val |-> JNull, next |-> 0]

RECURSIVE ParseValue(_, _), ParseItems(_, _, _)
ParseItems(toks, i, acc) ==
    LET item == ParseValue(toks, i) IN
    IF ~item.ok \/ item.next > Len(toks) THEN NotParsed
    ELSE IF toks[item.next] = ","
         THEN ParseItems(toks, item.next + 1, Append(acc, item.val))
         ELSE IF toks[item.next] = "]"
              THEN Parsed(JArray(Append(acc, item.val)), item.next + 1)
              ELSE NotParsed
ParseValue(toks, i) ==
    IF i > Len(toks) THEN NotParsed
    ELSE LET tok == toks[i] IN
         CASE tok = "[" ->
                 IF i < Len(toks) /\ toks[i + 1] = "]"
                 THEN Parsed(JArray(<<>>), i + 2)
                 ELSE ParseItems(toks, i + 1, <<>>)
           [] tok = "true"  -> Parsed(JBool(TRUE), i + 1)
           [] tok = "false" -> Parsed(JBool(FALSE), i + 1)
           [] tok = "null"  -> Parsed(JNull, i + 1)
           [] \E x \in StringUniverse : tok = Quote(x) ->
                 Parsed(JString(CHOOSE x \in StringUniverse : tok = Quote(x)), i + 1)
           [] \E n \in NumberUniverse : tok = NumText(n) ->
                 Parsed(JNumber(CHOOSE n \in NumberUniverse : tok = NumText(n)), i + 1)
           [] OTHER -> NotParsed

\* The members of an object from token i on; a key met twice keeps the
\* value met last.
RECURSIVE ParseMembers(_, _, _)
ParseMembers(toks, i, acc) ==
    IF i + 2 > Len(toks) THEN NotParsed
    ELSE IF ~(\E k \in StringUniverse : toks[i] = Quote(k)) \/ toks[i + 1] # ":"
         THEN NotParsed
         ELSE LET k == CHOOSE x \in StringUniverse : toks[i] = Quote(x)
                  member == ParseValue(toks, i + 2)
              IN IF ~member.ok \/ member.next > Len(toks) THEN NotParsed
                 ELSE IF toks[member.next] = ","
                      THEN ParseMembers(toks, member.next + 1,
                                        Insert(acc, k, member.val))
                      ELSE IF toks[member.next] = "}"
                           THEN Parsed(Insert(acc, k, member.val), member.next + 1)
                           ELSE NotParsed

\* serde_json::from_reader into HashMap<String, Value>: the whole text must
\* be one object.
from_reader(toks) ==
    IF Len(toks) < 2 \/ toks[1] # "{" THEN Err("Upstream")
    ELSE IF toks = <<"{", "}">> THEN Ok(EmptyMap)
         ELSE LET r == ParseMembers(toks, 2, EmptyMap) IN
              IF r.ok /\ r.next = Len(toks) + 1 THEN Ok(r.val) ELSE Err("Upstream")

\* How many operations are called on one document, and how many temporary
\* names the work dir has room for.
MaxOps == 3
MaxTmp == 2

\* The provisioning document's file, and the names mktemp can give.
CONFIG_JSON == "config.json"
TmpNames == {CONFIG_JSON \o "." \o NatText(i) : i \in 1..MaxTmp}

\* The host names set_host_name is called with.
NewHostNames == {"new-host"}

\* The texts config.json can hold when the program starts: a document of
\* the model, an empty file, or a text that breaks off.
InitialTexts ==
    {to_writer(d, KeysInOrder) : d \in Docs_json}
    \cup {<<>>, <<"{", Quote(HOSTNAME), ":", Quote("old-host"), ",">>}

\* BalenaCfgJson::new (balena_cfg_json.rs:27): open, parse, not modified.
BalenaCfgJson_new(disk, path) ==
    IF path \notin DOMAIN disk
    THEN ErrMsg("Upstream", <<"new: cannot open file", path>>)
    ELSE LET r == from_reader(disk[path]) IN
         IF r.ok THEN Ok([config |-> r.val, modified |-> FALSE])
         ELSE ErrMsg("Upstream", <<"Failed to parse json from file", path>>)

\* linux_common::mktemp(false, Some("config.json"), Some(work_dir)): the
\* names it can give, each one a name no file of the work dir has.
mktemp(disk) == TmpNames \ DOMAIN disk

\* Where a write can fail.
WriteFailures == {"mktemp", "open", "serialize"}

\* The bytes of a text, and the text of its first n bytes: the tokens that
\* fit, and the part of the next token that was written.
RECURSIVE ByteLen(_)
ByteLen(text) == IF text = <<>> THEN 0 ELSE Len(Head(text)) + ByteLen(Tail(text))

RECURSIVE FirstBytes(_, _)
FirstBytes(text, n) ==
    IF n = 0 \/ text = <<>> THEN <<>>
    ELSE IF Len(Head(text)) <= n
         THEN <<Head(text)>> \o FirstBytes(Tail(text), n - Len(Head(text)))
         ELSE <<SubSeq(Head(text), 1, n)>>

\* The bytes that can be in the file when serializing fails: any number
\* short of the whole text.
BytesBeforeFailure(text, fail) ==
    IF fail = "serialize" THEN 0..(ByteLen(text) - 1) ELSE {0}

\* What a write did: its result, the files afterwards, and the flag.
Written(r, d, m) == [res |-> r, disk |-> d, modified |-> m]

\* Mutant: the flag is cleared before the document is serialized.
BalenaCfgJson_write_clear_first(cfg, mod, disk, new_path, order, fail, cut) ==
    IF fail = "mktemp"
    THEN Written(ErrMsg("Upstream", <<"Failed to create temporary file">>),
                 disk, mod)
    ELSE IF fail = "open"
         THEN Written(ErrMsg("Upstream",
                             <<"Failed to open file for writing:", new_path>>),
                      Insert(disk, new_path, <<>>), mod)
         ELSE IF fail = "serialize"
              THEN Written(ErrMsg("Upstream",
                                  <<"Failed save modified config.json to", new_path>>),
                           Insert(disk, new_path,
                                  FirstBytes(to_writer(cfg, order), cut)),
                           FALSE)
              ELSE Written(Ok(new_path),
                           Insert(disk, new_path, to_writer(cfg, order)), FALSE)

\* Mutant: only the keys the program reads are written.
BalenaCfgJson_write_known_keys(cfg, mod, disk, new_path, order, fail, cut) ==
    IF fail = "mktemp"
    THEN Written(ErrMsg("Upstream", <<"Failed to create temporary file">>),
                 disk, mod)
    ELSE IF fail = "open"
         THEN Written(ErrMsg("Upstream",
                             <<"Failed to open file for writing:", new_path>>),
                      Insert(disk, new_path, <<>>), mod)
         ELSE IF fail = "serialize"
              THEN Written(ErrMsg("Upstream",
                                  <<"Failed save modified config.json to", new_path>>),
                           Insert(disk, new_path,
                                  FirstBytes(to_writer(Remove(cfg, UnknownKey),
                                                       order), cut)),
                           mod)
              ELSE Written(Ok(new_path),
                           Insert(disk, new_path,
                                  to_writer(Remove(cfg, UnknownKey), order)),
                           FALSE)

\* Mutant: the file the document was loaded from is opened for writing
\* instead of the temporary file.
BalenaCfgJson_write_in_place(cfg, mod, disk, new_path, order, fail, cut) ==
    IF fail = "mktemp"
    THEN Written(ErrMsg("Upstream", <<"Failed to create temporary file">>),
                 disk, mod)
    ELSE IF fail = "open"
         THEN Written(ErrMsg("Upstream",
                             <<"Failed to open file for writing:", new_path>>),
                      Insert(disk, new_path, <<>>), mod)
         ELSE IF fail = "serialize"
              THEN Written(ErrMsg("Upstream",
                                  <<"Failed save modified config.json to", new_path>>),
                           Insert(Insert(disk, new_path, <<>>), CONFIG_JSON,
                                  FirstBytes(to_writer(cfg, order), cut)),
                           mod)
              ELSE Written(Ok(new_path),
                           Insert(Insert(disk, new_path, <<>>), CONFIG_JSON,
                                  to_writer(cfg, order)),
                           FALSE)

\* BalenaCfgJson::write (balena_cfg_json.rs:47): mktemp creates the empty
\* file new_path, the file is opened, the map is serialized into it, and
\* then the flag is cleared; each step can fail with an Upstream error, and
\* a failing serialization leaves the cut bytes it had written in the file.
BalenaCfgJson_write(cfg, mod, disk, new_path, order, fail, cut) ==
    IF fail = "mktemp"
    THEN Written(ErrMsg("Upstream", <<"Failed to create temporary file">>),
                 disk, mod)
    ELSE IF fail = "open"
         THEN Written(ErrMsg("Upstream",
                             <<"Failed to open file for writing:", new_path>>),
                      Insert(disk, new_path, <<>>), mod)
         ELSE IF fail = "serialize"
              THEN Written(ErrMsg("Upstream",
                                  <<"Failed save modified config.json to", new_path>>),
                           Insert(disk, new_path,
                                  FirstBytes(to_writer(cfg, order), cut)),
                           mod)
              ELSE Written(Ok(new_path),
                           Insert(disk, new_path, to_writer(cfg, order)), FALSE)

\* Url::parse, Url::host and Url::port on the URL texts of the model: a text
\* without a scheme is an error, a mailto: URL has no host, an https: URL
\* written without the slashes has what follows as its host, and a port
\* equal to the scheme's default is reported as no port.
Schemes == {"https", "mailto"}
UrlPorts == {443, 8080}
OpaqueRests == {"ops"}
DefaultPort(scheme) == IF scheme = "https" THEN 443 ELSE 0
NoPort == [some |-> FALSE, val |-> 0]
SomePort(n) == [some |-> TRUE, val |-> n]
Url_parse(x) ==
    IF \E sc \in Schemes, h \in Hosts : x = Url(sc, h)
    THEN Ok([host |-> SomeStr(CHOOSE h \in Hosts :
                                 \E sc \in Schemes : x = Url(sc, h)),
             port |-> NoPort])
    ELSE IF \E sc \in Schemes, h \in Hosts, n \in UrlPorts : x = UrlPort(sc, h, n)
         THEN LET u == CHOOSE u \in Schemes \X Hosts \X UrlPorts :
                           x = UrlPort(u[1], u[2], u[3])
              IN Ok([host |-> SomeStr(u[2]),
                     port |-> IF u[3] = DefaultPort(u[1]) THEN NoPort
                              ELSE SomePort(u[3])])
         ELSE IF \E r \in OpaqueRests : x = UrlOpaque("mailto", r)
              THEN Ok([host |-> NoStr, port |-> NoPort])
              ELSE IF \E r \in OpaqueRests : x = UrlOpaque("https", r)
                   THEN Ok([host |-> SomeStr(CHOOSE r \in OpaqueRests :
                                                x = UrlOpaque("https", r)),
                            port |-> NoPort])
                   ELSE Err("Upstream")

\* defs::BALENA_API_PORT, the port of an API endpoint that names none.
BALENA_API_PORT == 443

\* Mutant: the port is not narrowed.
as_u16_wide(n) == n

\* `as u16`: the low 16 bits.
as_u16(n) == n % 65536

\* What a part of check() did: its result, the messages it printed with
\* error!(), the probes it made, and the connections of those probes.
Checked(r, msgs, probes, att, shut) ==
    [res |-> r, displayed |-> msgs, probes |-> probes, attempts |-> att,
     shutdowns |-> shut]
ProbeLog(which, host, port, p) ==
    <<[which |-> which, host |-> host, port |-> port, ok |-> p.res.ok]>>

\* balena_cfg_json.rs:78-110: the API endpoint is parsed as a URL and its
\* host probed; a failed probe and a URL without host are displayed errors.
CheckApiProbe(cfg, timeout, resolve, reach) ==
    LET api_endpoint == get_api_endpoint(cfg) IN
    IF ~api_endpoint.ok THEN Checked(api_endpoint, <<>>, <<>>, <<>>, <<>>)
    ELSE LET api_url == Url_parse(api_endpoint.val) IN
         IF ~api_url.ok
         THEN Checked(ErrMsg("Upstream", <<"Failed to parse balena api url",
                                          api_endpoint.val>>),
                      <<>>, <<>>, <<>>, <<>>)
         ELSE IF api_url.val.host.some
              THEN LET api_host == api_url.val.host.val
                       api_port == IF api_url.val.port.some
                                   THEN api_url.val.port.val
                                   ELSE BALENA_API_PORT
                       p == check_tcp_connect(api_host, api_port, timeout,
                                              resolve, reach)
                   IN IF p.res.ok
                      THEN Checked(Ok(<<>>), <<>>,
                                   ProbeLog("api", api_host, api_port, p),
                                   p.attempts, p.shutdowns)
                      ELSE Checked(Err("Displayed"),
                                   <<<<"failed to connect to api server @",
                                       api_endpoint.val, NatText(api_port)>>>>,
                                   ProbeLog("api", api_host, api_port, p),
                                   p.attempts, p.shutdowns)
              ELSE Checked(Err("Displayed"),
                           <<<<"failed to parse api server url from config.json:",
                               api_endpoint.val>>>>,
                           <<>>, <<>>, <<>>)

\* Mutant: a VPN probe that fails is not an error.
CheckVpnProbe_warn_only(cfg, timeout, resolve, reach) ==
    LET vpn_endpoint == get_vpn_endpoint(cfg)
        port == get_vpn_port(cfg)
    IN
    IF ~vpn_endpoint.ok THEN Checked(vpn_endpoint, <<>>, <<>>, <<>>, <<>>)
    ELSE IF ~port.ok THEN Checked(port, <<>>, <<>>, <<>>, <<>>)
    ELSE LET vpn_port == as_u16(port.val)
             p == check_tcp_connect(vpn_endpoint.val, vpn_port, timeout,
                                    resolve, reach)
         IN Checked(Ok(<<>>), <<>>,
                    ProbeLog("vpn", vpn_endpoint.val, vpn_port, p),
                    p.attempts, p.shutdowns)

\* balena_cfg_json.rs:112-125: the VPN endpoint is probed at the VPN port,
\* narrowed to u16; a failed probe is a displayed error.
CheckVpnProbe(cfg, timeout, resolve, reach) ==
    LET vpn_endpoint == get_vpn_endpoint(cfg)
        port == get_vpn_port(cfg)
    IN
    IF ~vpn_endpoint.ok THEN Checked(vpn_endpoint, <<>>, <<>>, <<>>, <<>>)
    ELSE IF ~port.ok THEN Checked(port, <<>>, <<>>, <<>>, <<>>)
    ELSE LET vpn_port == as_u16(port.val)
             p == check_tcp_connect(vpn_endpoint.val, vpn_port, timeout,
                                    resolve, reach)
         IN IF p.res.ok
            THEN Checked(Ok(<<>>), <<>>,
                         ProbeLog("vpn", vpn_endpoint.val, vpn_port, p),
                         p.attempts, p.shutdowns)
            ELSE Checked(Err("Displayed"),
                         <<<<"failed to connect to vpn server @",
                             vpn_endpoint.val, NatText(vpn_port)>>>>,
                         ProbeLog("vpn", vpn_endpoint.val, vpn_port, p),
                         p.attempts, p.shutdowns)

\* Mutant: the VPN endpoint is probed although the API step failed.
BalenaCfgJson_check_probe_all(cfg, is_check_api, is_check_vpn, timeout, resolve, reach) ==
    LET app_id == get_app_id(cfg)
        skip == Checked(Ok(<<>>), <<>>, <<>>, <<>>, <<>>)
        api == IF is_check_api THEN CheckApiProbe(cfg, timeout, resolve, reach)
               ELSE skip
        vpn == IF is_check_vpn THEN CheckVpnProbe(cfg, timeout, resolve, reach)
               ELSE skip
    IN
    IF ~app_id.ok THEN Checked(app_id, <<>>, <<>>, <<>>, <<>>)
    ELSE Checked(IF ~api.res.ok THEN api.res ELSE vpn.res,
                 api.displayed \o vpn.displayed,
                 api.probes \o vpn.probes, api.attempts \o vpn.attempts,
                 api.shutdowns \o vpn.shutdowns)

\* BalenaCfgJson::check (balena_cfg_json.rs:74): the application id, then
\* the API probe if enabled, then the VPN probe if enabled.
BalenaCfgJson_check(cfg, is_check_api, is_check_vpn, timeout, resolve, reach) ==
    LET app_id == get_app_id(cfg)
        skip == Checked(Ok(<<>>), <<>>, <<>>, <<>>, <<>>)
        api == IF is_check_api THEN CheckApiProbe(cfg, timeout, resolve, reach)
               ELSE skip
        vpn == IF is_check_vpn THEN CheckVpnProbe(cfg, timeout, resolve, reach)
               ELSE skip
    IN
    IF ~app_id.ok THEN Checked(app_id, <<>>, <<>>, <<>>, <<>>)
    ELSE IF ~api.res.ok THEN api
    ELSE Checked(vpn.res, api.displayed \o vpn.displayed,
                 api.probes \o vpn.probes, api.attempts \o vpn.attempts,
                 api.shutdowns \o vpn.shutdowns)

JsonIdle ==
    /\ jDisk = EmptyMap /\ jConfig = EmptyMap /\ modified = FALSE
    /\ jpc = "off" /\ jOp = "none" /\ jArg = "" /\ jres = NoResult
    /\ jOps = 0 /\ jWritten = NoStr /\ jReparsed = NoResult
    /\ checkApi = FALSE /\ checkVpn = FALSE /\ jProbes = <<>>
    /\ jReturned = <<>>

\* BalenaCfgJson::new(cfg_file) on the document's file.
JNew ==
    /\ jpc = "new"
    /\ LET r == BalenaCfgJson_new(jDisk, CONFIG_JSON) IN
       /\ jres' = (IF r.ok THEN Ok(<<>>) ELSE r)
       /\ jConfig' = (IF r.ok THEN r.val.config ELSE jConfig)
       /\ modified' = (IF r.ok THEN r.val.modified ELSE modified)
       /\ jpc' = (IF r.ok THEN "ready" ELSE "failed")
    /\ jOp' = "new" /\ jArg' = CONFIG_JSON
    /\ UNCHANGED <<jReturned, fs, displayed, jDisk, jOps, jWritten, jReparsed, checkApi,
                   checkVpn, jProbes, cfgVars, fiVars, typeVars, cmdVars,
                   netVars, dgVars, parseVars>>

\* One of the typed getters.
JGet ==
    /\ jpc = "ready" /\ jOps < MaxOps
    /\ \E g \in Getters :
          /\ jres' = Getter(g, jConfig)
          /\ jArg' = g
    /\ jOp' = "get" /\ jOps' = jOps + 1
    /\ UNCHANGED <<jReturned, fs, displayed, jDisk, jConfig, modified, jpc, jWritten,
                   jReparsed, checkApi, checkVpn, jProbes, cfgVars, fiVars,
                   typeVars, cmdVars, netVars, dgVars, parseVars>>

\* set_host_name(hostname).
JSetHostName ==
    /\ jpc = "ready" /\ jOps < MaxOps
    /\ \E hostname \in NewHostNames :
          LET r == set_host_name(jConfig, hostname) IN
          /\ jConfig' = r.config
          /\ modified' = r.modified
          /\ jres' = r.ret
          /\ jArg' = hostname
    /\ jOp' = "set_host_name" /\ jOps' = jOps + 1
    /\ UNCHANGED <<jReturned, fs, displayed, jDisk, jpc, jWritten, jReparsed, checkApi,
                   checkVpn, jProbes, cfgVars, fiVars, typeVars, cmdVars,
                   netVars, dgVars, parseVars>>

\* write(work_dir): mktemp gives a name no file of the work dir has.
JWrite ==
    /\ jpc = "ready" /\ jOps < MaxOps
    /\ \E new_path \in mktemp(jDisk), order \in KeyOrders(jConfig),
          fail \in WriteFailures \cup {"none"} :
          \E cut \in BytesBeforeFailure(to_writer(jConfig, order), fail) :
          LET w == BalenaCfgJson_write(jConfig, modified, jDisk, new_path,
                                       order, fail, cut) IN
          /\ jDisk' = w.disk
          /\ modified' = w.modified
          /\ jres' = w.res
          /\ jWritten' = (IF w.res.ok THEN SomeStr(w.res.val) ELSE jWritten)
          /\ jReturned' = (IF w.res.ok THEN Append(jReturned, w.res.val)
                           ELSE jReturned)
          /\ jArg' = fail
    /\ jOp' = "write" /\ jOps' = jOps + 1
    /\ UNCHANGED <<fs, displayed, jConfig, jpc, jReparsed, checkApi, checkVpn,
                   jProbes, cfgVars, fiVars, typeVars, cmdVars, netVars, dgVars, parseVars>>

\* BalenaCfgJson::new on the file the last write returned.
JReparse ==
    /\ jpc = "ready" /\ jOps < MaxOps
    /\ jWritten.some
    /\ LET r == BalenaCfgJson_new(jDisk, jWritten.val) IN
       jReparsed' = (IF r.ok THEN Ok(r.val.config) ELSE r)
    /\ jOp' = "reparse" /\ jArg' = jWritten.val /\ jOps' = jOps + 1
    /\ UNCHANGED <<jReturned, fs, displayed, jDisk, jConfig, modified, jpc, jres, jWritten,
                   checkApi, checkVpn, jProbes, cfgVars, fiVars, typeVars,
                   cmdVars, netVars, dgVars, parseVars>>

\* check(config).
JCheck ==
    /\ jpc = "ready" /\ jOps < 1
    /\ LET c == BalenaCfgJson_check(jConfig, checkApi, checkVpn, CheckTimeout,
                                    netResolve, netReach) IN
       /\ jres' = c.res
       /\ displayed' = displayed \o c.displayed
       /\ jProbes' = jProbes \o c.probes
       /\ attempts' = attempts \o c.attempts
       /\ shutdowns' = shutdowns \o c.shutdowns
    /\ jOp' = "check" /\ jArg' = "" /\ jOps' = jOps + 1
    /\ UNCHANGED <<jReturned, fs, jDisk, jConfig, modified, jpc, jWritten, jReparsed,
                   checkApi, checkVpn, netResolve, netReach, netHost, netPort,
                   npc, nres, cfgVars, fiVars, typeVars, cmdVars, dgVars, parseVars>>

----------------------------------------------------------------------------
(* Checksum verification of a file reference (FileRef.hash)                *)

\* How long an artifact and a configured digest text can be.
MaxContentLen == 2
MaxHexLen == 2

\* The bytes and the artifacts of the model.
Bytes == {0, 171, 255}
Contents == UNION {[1..n -> Bytes] : n \in 0..MaxContentLen}

\* The hex digits, their values, and char::to_ascii_lowercase on them.
HexLower == <<"0", "1", "2", "3", "4", "5", "6", "7", "8", "9",
              "a", "b", "c", "d", "e", "f">>
HexUpper == <<"0", "1", "2", "3", "4", "5", "6", "7", "8", "9",
              "A", "B", "C", "D", "E", "F">>
HexChars == Range(HexLower) \cup Range(HexUpper)
HexValue(c) ==
    CHOOSE v \in 0..15 : HexLower[v + 1] = c \/ HexUpper[v + 1] = c
to_ascii_lowercase(h) == [i \in 1..Len(h) |-> HexLower[HexValue(h[i]) + 1]]
to_ascii_uppercase(h) == [i \in 1..Len(h) |-> HexUpper[HexValue(h[i]) + 1]]

\* The digest of an artifact as the lower-case hex text of a one-byte
\* checksum: it stands for the md5 of the file.
RECURSIVE Checksum(_, _)
Checksum(content, i) ==
    IF i = 0 THEN 7
    ELSE (Checksum(content, i - 1) * 31 + content[i]) % 256
HexText(n) == <<HexLower[(n \div 16) + 1], HexLower[(n % 16) + 1]>>
compute_digest(content) == HexText(Checksum(content, Len(content)))

\* The digest texts a document can configure: the digest of an artifact of
\* the model written in lower, upper or mixed case, and other texts of any
\* length up to MaxHexLen.
CaseVariants(h) ==
    {h, to_ascii_uppercase(h),
     [i \in 1..Len(h) |-> IF i = 1 THEN to_ascii_uppercase(h)[i] ELSE h[i]]}
OtherChars == {"0", "f", "F"}
ExpectedTexts ==
    UNION {CaseVariants(compute_digest(c)) : c \in Contents}
    \cup UNION {[1..n -> OtherChars] : n \in 0..MaxHexLen}
ExpectedDigests == {NoHash} \cup {HashInfo_Md5(h) : h \in ExpectedTexts}

\* Mutant: the two texts are compared as they are written.
check_digest_case_sensitive(content, hash) ==
    IF ~hash.some THEN Ok(<<>>)
    ELSE LET computed == compute_digest(content) IN
         IF computed = hash.hex THEN Ok(<<>>)
         ELSE ErrMsg("InvParam",
                     [alg |-> hash.alg, expected |-> hash.hex,
                      computed |-> computed])

\* The checksum step: without a configured digest there is nothing to
\* verify; otherwise the digest of the artifact is computed and compared
\* with the configured text without regard to case, and a mismatch is an
\* error that names the algorithm, the expected and the computed value.
check_digest(content, hash) ==
    IF ~hash.some THEN Ok(<<>>)
    ELSE LET computed == compute_digest(content) IN
         IF to_ascii_lowercase(computed) = to_ascii_lowercase(hash.hex)
         THEN Ok(<<>>)
         ELSE ErrMsg("InvParam",
                     [alg |-> hash.alg, expected |-> hash.hex,
                      computed |-> computed])

\* The text h with the digit at position i replaced by c.
Flip(h, i, c) == [h EXCEPT ![i] = c]

DgIdle ==
    /\ dgContent = <<>> /\ dgExpected = NoHash /\ dgpc = "off"
    /\ dgFirst = NoResult /\ dgRes = NoResult

\* The checksum step runs on the artifact with the configured digest.
DgVerify ==
    /\ dgpc = "idle"
    /\ dgRes' = check_digest(dgContent, dgExpected)
    /\ dgFirst' = dgRes'
    /\ dgpc' = "verified"
    /\ UNCHANGED <<fs, displayed, dgContent, dgExpected, cfgVars, fiVars,
                   typeVars, cmdVars, netVars, jsonVars, parseVars>>

\* One digit of the configured digest is replaced by a hex digit of another
\* value, and the checksum step runs again.
DgFlipAndVerify ==
    /\ dgpc = "verified" /\ dgExpected.some
    /\ \E i \in 1..Len(dgExpected.hex), c \in HexChars :
          /\ HexValue(c) # HexValue(dgExpected.hex[i])
          /\ dgExpected' = HashInfo_Md5(Flip(dgExpected.hex, i, c))
          /\ dgRes' = check_digest(dgContent, dgExpected')
    /\ dgpc' = "reverified"
    /\ UNCHANGED <<fs, displayed, dgContent, dgFirst, cfgVars, fiVars,
                   typeVars, cmdVars, netVars, jsonVars, parseVars>>

----------------------------------------------------------------------------
(* Config::from_string on the documents of the tests and their variations  *)

\* The digests of the test documents, shortened to four digits.
DigestA == <<"f", "1", "b", "3">>
DigestB == <<"4", "8", "3", "4">>

\* TEST_DD_CONFIG_OK (config.rs:348): the image is a raw disk image.
TEST_DD_CONFIG_OK ==
    [state |-> "ok",
     work_dir |-> SomePath(RelPath(<<".", "work">>)),
     mode |-> SomeStr("immediate"),
     reboot |-> YInt(10), all_wifis |-> YBool(FALSE), force_slug |-> YAbsent,
     kernel_file |-> YAbsent, initramfs_file |-> YAbsent,
     kernel_path |-> YStr("balena.zImage"), kernel_md5 |-> YHex(DigestA),
     initrd_path |-> YStr("balena.initrd.cpio.gz"),
     initrd_md5 |-> YHex(DigestA),
     image |-> [kind |-> "dd", path |-> YStr("balena.img.gz"),
                md5 |-> YHex(DigestB)],
     config_path |-> YStr("config.json"), config_md5 |-> YHex(DigestB),
     api_check |-> YBool(TRUE), check_vpn |-> YBool(TRUE),
     check_timeout |-> YInt(20),
     no_flash |-> YBool(TRUE), unknown |-> {}]

\* TEST_FS_CONFIG_OK (config.rs:421): the image is a set of partition
\* archives, of which the model keeps the boot archive; its digest is
\* written as a number; several references have no digest.
TEST_FS_CONFIG_OK ==
    [state |-> "ok",
     work_dir |-> SomePath(RelPath(<<".">>)),
     mode |-> SomeStr("immediate"),
     reboot |-> YInt(5), all_wifis |-> YBool(TRUE), force_slug |-> YAbsent,
     kernel_file |-> YAbsent, initramfs_file |-> YAbsent,
     kernel_path |-> YStr("balena.zImage"), kernel_md5 |-> YAbsent,
     initrd_path |-> YStr("balena.initramfs.cpio.gz"),
     initrd_md5 |-> YAbsent,
     image |-> [kind |-> "fs", path |-> YStr("resin-boot.tgz"),
                md5 |-> YInt(1234)],
     config_path |-> YStr("config.json"), config_md5 |-> YAbsent,
     api_check |-> YBool(TRUE), check_vpn |-> YBool(TRUE),
     check_timeout |-> YInt(20),
     no_flash |-> YBool(FALSE), unknown |-> {"dtb_path"}]

\* The keys of a document and the other values each can have.
YamlKeys == DOMAIN EmptyYaml
YamlValues(k) ==
    CASE k = "state"    -> {"malformed"}
      [] k = "work_dir" -> {NoPath, SomePath(RelPath(<<"data">>))}
      [] k = "mode"     -> {NoStr, SomeStr("IMMEDIATE"), SomeStr("Agent"),
                            SomeStr("pretend"), SomeStr("bogus")}
      [] k = "reboot"   -> {YAbsent, YNull, YInt(0), YInt(-1), YInt(60)}
      [] k = "all_wifis"   -> {YAbsent, YNull}
      [] k = "force_slug"  -> {YNull, YStr("beaglebone-black")}
      [] k = "kernel_file" -> {YStr("zImage")}
      [] k = "initramfs_file" -> {YNull, YStr("initramfs.cpio.gz")}
      [] k = "kernel_path" -> {YAbsent}
      [] k = "kernel_md5"  -> {YAbsent, YNull, YHex(DigestB), YInt(1234)}
      [] k = "initrd_path" -> {YStr("initrd.gz")}
      [] k = "initrd_md5"  -> {YNull}
      [] k = "image"    -> {NoImage,
                            [kind |-> "dd", path |-> YStr("disk.img.gz"),
                             md5 |-> YAbsent],
                            [kind |-> "fs", path |-> YStr("boot.tgz"),
                             md5 |-> YHex(DigestA)]}
      [] k = "config_path" -> {YAbsent}
      [] k = "config_md5"  -> {YNull, YHex(DigestA)}
      [] k = "api_check"   -> {YNull, YBool(FALSE)}
      [] k = "check_vpn"   -> {YNull, YBool(FALSE)}
      [] k = "check_timeout" -> {YNull, YInt(5)}
      [] k = "no_flash" -> {YNull, YBool(TRUE), YBool(FALSE)}
      [] k = "unknown"  -> {{"extra"}, {"dtb_path", "extra"}}

\* The documents of the model: the two test documents with at most two keys
\* given another value.
OneChange(base) ==
    UNION {{[base EXCEPT ![k] = v] : v \in YamlValues(k) \cup {base[k]}} :
              k \in YamlKeys}
YamlDocs ==
    UNION {UNION {OneChange(d) : d \in OneChange(base)} :
              base \in {TEST_DD_CONFIG_OK, TEST_FS_CONFIG_OK}}

ParseIdle == yDoc = EmptyYaml /\ ypc = "off" /\ yRes = NoResult

\* Config::from_string(document).
YParse ==
    /\ ypc = "idle"
    /\ yRes' = Config_from_string(yDoc)
    /\ ypc' = "done"
    /\ UNCHANGED <<fs, displayed, yDoc, cfgVars, fiVars, typeVars, cmdVars,
                   netVars, jsonVars, dgVars>>

----------------------------------------------------------------------------
(* Specification of Config::new                                            *)

InitConfig ==
    /\ fs \in FsChoices
    /\ displayed = <<>>
    /\ argWorkDir \in WorkDirArgs
    /\ argConfig \in ConfigArgs
    /\ argMode \in ModeArgs
    /\ argImage \in ImageArgs
    /\ cpc = "start"
    /\ work_dir = NoPath /\ tmp_work_dir = RelPath(<<>>)
    /\ config_path = NoPath /\ doc = NoDoc
    /\ config = Config_default /\ validated = <<>>
    /\ cres = NoResult
    /\ FiIdle /\ TypeIdle /\ CmdIdle /\ NetIdle /\ JsonIdle /\ DgIdle /\ ParseIdle

NextConfig ==
    \/ ResolveWorkDir
    \/ LocateConfig
    \/ BuildBase
    \/ OverrideWorkDir
    \/ RequireWorkDir
    \/ OverrideMode
    \/ OverrideImage
    \/ CheckAndReturn

SpecConfig == InitConfig /\ [][NextConfig]_vars

----------------------------------------------------------------------------
(* Specification of FileInfo::new                                          *)

InitFileInfo ==
    /\ fs \in FiFsChoices
    /\ displayed = <<>>
    /\ fiFile \in FileArgs
    /\ fiWorkDir \in WorkDirs
    /\ fpc = "start"
    /\ foundGiven = FALSE /\ foundWork = FALSE
    /\ checked_path = RelPath(<<>>) /\ abs_path = RelPath(<<>>)
    /\ removals = 0
    /\ fres = NoResult
    /\ CfgIdle /\ TypeIdle /\ CmdIdle /\ NetIdle /\ JsonIdle /\ DgIdle /\ ParseIdle

NextFileInfo ==
    \/ FiCheckGiven
    \/ FiCheckWorkDir
    \/ FiCanonicalize
    \/ FiMetadata
    \/ EnvRemove

SpecFileInfo == InitFileInfo /\ [][NextFileInfo]_vars

----------------------------------------------------------------------------
(* Specification of the classification of one artifact                     *)

InitClassify ==
    /\ fs = FiAlways
    /\ displayed = <<>>
    /\ target_os \in {"linux", "windows"}
    /\ tpc = "idle" /\ tOp = "none"
    /\ tPath \in TypePaths
    /\ tType \in FileTypes
    /\ tCall \in IF target_os = "linux" THEN Runs ELSE {NoRun}
    /\ tIs = NoResult /\ tExpect = NoResult
    /\ CfgIdle /\ FiIdle /\ CmdIdle /\ NetIdle /\ JsonIdle /\ DgIdle /\ ParseIdle

NextClassify ==
    \/ CallIsType
    \/ CallExpectType
    \/ CallIsTypeWindows
    \/ CallExpectTypeWindows

SpecClassify == InitClassify /\ [][NextClassify]_vars

----------------------------------------------------------------------------
(* Specification of call_cmd called from several threads                   *)

InitCmd ==
    /\ fs = FiAlways
    /\ displayed = <<>>
    /\ cmdEnv \in CmdEnvs
    /\ once = "new" /\ CMD_PATH = NoTable
    /\ lookups = [c \in Range(CheckedCmds) |-> 0]
    /\ spawned = {}
    /\ cmdPc = [t \in Threads |-> "idle"]
    /\ cmdArg = [t \in Threads |-> ""]
    /\ cmdTrim = [t \in Threads |-> FALSE]
    /\ cmdMap = [t \in Threads |-> EmptyMap]
    /\ cmdPos = [t \in Threads |-> 0]
    /\ cmdSeen = [t \in Threads |-> NoTable]
    /\ cmdCalls = [t \in Threads |-> 0]
    /\ cmdRes = [t \in Threads |-> NoResult]
    /\ CfgIdle /\ FiIdle /\ TypeIdle /\ NetIdle /\ JsonIdle /\ DgIdle /\ ParseIdle

NextCmd ==
    \E t \in Threads :
        \/ CmdEnter(t)
        \/ CmdDeref(t)
        \/ CmdInitStep(t)
        \/ CmdGet(t)

SpecCmd == InitCmd /\ [][NextCmd]_vars

----------------------------------------------------------------------------
(* Specification of one connectivity probe                                 *)

InitNet ==
    /\ fs = FiAlways
    /\ displayed = <<>>
    /\ netResolve \in [Hosts -> Resolutions]
    /\ netReach \in [Addrs -> ConnectOutcomes]
    /\ netHost \in Hosts
    /\ netPort \in Ports
    /\ attempts = <<>> /\ shutdowns = <<>>
    /\ npc = "idle" /\ nres = NoResult
    /\ CfgIdle /\ FiIdle /\ TypeIdle /\ CmdIdle /\ JsonIdle /\ DgIdle /\ ParseIdle

NextNet == CallCheckTcpConnect

SpecNet == InitNet /\ [][NextNet]_vars

----------------------------------------------------------------------------
(* Specification of the provisioning document: read, query, change, write  *)

InitJson ==
    /\ fs = FiAlways
    /\ displayed = <<>>
    /\ jDisk \in {EmptyMap} \cup {(CONFIG_JSON :> text) : text \in InitialTexts}
    /\ jConfig = EmptyMap /\ modified = FALSE
    /\ jpc = "new" /\ jOp = "none" /\ jArg = "" /\ jres = NoResult
    /\ jOps = 0 /\ jWritten = NoStr /\ jReparsed = NoResult
    /\ checkApi = FALSE /\ checkVpn = FALSE /\ jProbes = <<>>
    /\ jReturned = <<>>
    /\ CfgIdle /\ FiIdle /\ TypeIdle /\ CmdIdle /\ NetIdle /\ DgIdle /\ ParseIdle

NextJson ==
    \/ JNew
    \/ JGet
    \/ JSetHostName
    \/ JWrite
    \/ JReparse

SpecJson == InitJson /\ [][NextJson]_vars

----------------------------------------------------------------------------
(* Specification of the connectivity check of a provisioning document      *)

InitJsonCheck ==
    /\ fs = FiAlways
    /\ displayed = <<>>
    /\ jDisk = EmptyMap
    /\ jConfig \in KnownDocs /\ modified = FALSE
    /\ jpc = "ready" /\ jOp = "new" /\ jArg = "" /\ jres = NoResult
    /\ jOps = 0 /\ jWritten = NoStr /\ jReparsed = NoResult
    /\ checkApi \in BOOLEAN /\ checkVpn \in BOOLEAN /\ jProbes = <<>>
    /\ jReturned = <<>>
    /\ netResolve \in [Hosts -> Resolutions]
    /\ netReach \in [Addrs -> ConnectOutcomes]
    /\ netHost = "" /\ netPort = 0
    /\ attempts = <<>> /\ shutdowns = <<>>
    /\ npc = "off" /\ nres = NoResult
    /\ CfgIdle /\ FiIdle /\ TypeIdle /\ CmdIdle /\ DgIdle /\ ParseIdle

NextJsonCheck == JCheck

SpecJsonCheck == InitJsonCheck /\ [][NextJsonCheck]_vars

----------------------------------------------------------------------------
(* Specification of the checksum step                                      *)

InitDigest ==
    /\ fs = FiAlways
    /\ displayed = <<>>
    /\ dgContent \in Contents
    /\ dgExpected \in ExpectedDigests
    /\ dgpc = "idle" /\ dgFirst = NoResult /\ dgRes = NoResult
    /\ CfgIdle /\ FiIdle /\ TypeIdle /\ CmdIdle /\ NetIdle /\ JsonIdle /\ ParseIdle

NextDigest ==
    \/ DgVerify
    \/ DgFlipAndVerify

SpecDigest == InitDigest /\ [][NextDigest]_vars

----------------------------------------------------------------------------
(* Specification of the parsing of a configuration document                *)

InitParse ==
    /\ fs = FiAlways
    /\ displayed = <<>>
    /\ yDoc \in YamlDocs
    /\ ypc = "idle" /\ yRes = NoResult
    /\ CfgIdle /\ FiIdle /\ TypeIdle /\ CmdIdle /\ NetIdle /\ JsonIdle /\ DgIdle

NextParse == YParse

SpecParse == InitParse /\ [][NextParse]_vars

----------------------------------------------------------------------------
(* Claims about Config::new (checked under SpecConfig)                     *)

\* The work dir is resolved: Config::new has passed the test of config.rs:176.
WorkDirResolved == cpc \in {"mode", "image", "check"} \/ (cpc = "done" /\ cres.ok)

\* The directory a command-line --work_dir names, as an absolute path.
FlagWorkDir == AbsPath(Locate(argWorkDir.val))

\* ResolveWorkDir failed: the --work_dir directory does not exist.
FlagWorkDirMissing == argWorkDir.some /\ Locate(argWorkDir.val) \notin fs

\* A document was found: a path was located and a file is there.
DocumentFound == config_path.some /\ Locate(config_path.val) \in fs

\* C1: the resolved work dir is the command-line work dir if one is given,
\* else the document's work dir if the document sets one, else the directory
\* containing the document if one was found; with none of the three,
\* Config::new fails, and the current directory is never the fallback.
C1_WorkDirPrecedence ==
    /\ WorkDirResolved =>
           /\ argWorkDir.some => config.migrate.work_dir = FlagWorkDir
           /\ ~argWorkDir.some => DocumentFound /\ doc.state = "ok"
           /\ (~argWorkDir.some /\ doc.work_dir.some) =>
                  config.migrate.work_dir = doc.work_dir.val
           /\ (~argWorkDir.some /\ ~doc.work_dir.some) =>
                  config.migrate.work_dir =
                      MkPath(config_path.val.abs,
                             SubSeq(config_path.val.comps, 1,
                                    Len(config_path.val.comps) - 1))
    /\ (cpc = "done" /\ cres.ok) =>
           cres.val.migrate.work_dir = config.migrate.work_dir
    /\ (cpc = "done" /\ ~argWorkDir.some /\ ~DocumentFound) => ~cres.ok

\* C1 witness: a configuration is returned where both the command line and
\* the document set a work dir.
C1_Witness ==
    /\ cpc = "done" /\ cres.ok
    /\ argWorkDir.some /\ ~argWorkDir.val.abs
    /\ doc.state = "ok" /\ doc.work_dir.some

\* C2: while neither the document nor the command line sets a mode the mode
\* is Invalid and Config::new ends in an error; no returned configuration
\* has mode Invalid.
C2_InvalidModeFails ==
    /\ (~argMode.some /\ ~doc.mode.some) => config.migrate.mode = "Invalid"
    /\ (cpc = "done" /\ ~argMode.some /\ ~doc.mode.some) => ~cres.ok
    /\ (cpc = "done" /\ cres.ok) => cres.val.migrate.mode # "Invalid"

\* C2 witness: a document without a mode was read, no --mode was given, and
\* validation rejected the configuration at the migrate sub-tree.
C2_Witness ==
    /\ cpc = "done" /\ ~cres.ok
    /\ ~argMode.some /\ doc.state = "ok" /\ ~doc.mode.some
    /\ validated = <<"migrate">>

\* C3: with no command-line work dir and no document found, Config::new
\* ends in the displayed error, having validated nothing; validation is
\* only reached, and a configuration only returned, with a work dir.
C3_NoWorkDirFails ==
    /\ (cpc = "done" /\ ~argWorkDir.some /\ ~DocumentFound) =>
           /\ ~cres.ok /\ cres.kind = "Displayed"
           /\ displayed = <<"no working directory">>
           /\ validated = <<>>
    /\ (cpc \in {"mode", "image", "check"}) =>
           (argWorkDir.some \/ DocumentFound)
    /\ (cpc = "done" /\ (cres.ok \/ validated # <<>>)) =>
           (argWorkDir.some \/ DocumentFound)

\* C3 witness: --config named a path where no file is, no --work_dir was
\* given, and Config::new ended in the displayed error.
C3_Witness ==
    /\ cpc = "done" /\ cres.kind = "Displayed"
    /\ config_path.some /\ ~DocumentFound

\* The mode a recognised --mode value names.
ModeNamed(s) ==
    CASE s = "pretend"   -> "Pretend"
      [] s = "IMMEDIATE" -> "Immediate"
      [] s = "agent"     -> "Agent"
      [] OTHER           -> "Invalid"

\* C4: the command-line work dir and mode are applied after the base
\* configuration is built and before validation: until the base is built the
\* configuration is the default one, nothing is validated before the last
\* step, and the configuration that is validated (and returned) has the
\* command-line work dir and mode; with no document, --work_dir and
\* --mode pretend, the mode is Pretend and the work dir the flag's.
C4_FlagsAppliedBeforeCheck ==
    /\ cpc \in {"start", "locate", "build"} => config = Config_default
    /\ cpc # "done" => validated = <<>>
    /\ (cpc = "check" \/ (cpc = "done" /\ validated # <<>>)) =>
           /\ argWorkDir.some =>
                  config.migrate.work_dir = FlagWorkDir
           /\ argMode.some => config.migrate.mode = ModeNamed(argMode.val)
    /\ (cpc = "done" /\ cres.ok) => cres.val = config
    /\ (cpc = "check" /\ ~DocumentFound /\ argWorkDir.some
        /\ argMode = SomeStr("pretend")) =>
           /\ config.migrate.mode = "Pretend"
           /\ config.migrate.work_dir = FlagWorkDir

\* C4 witness: no document found, --work_dir and --mode pretend given, and
\* Config::new returned a configuration in mode Pretend.
C4_Witness ==
    /\ cpc = "done" /\ cres.ok
    /\ ~DocumentFound /\ argWorkDir.some /\ argMode = SomeStr("pretend")
    /\ cres.val.migrate.mode = "Pretend"

\* A mode value that is none of the recognised names.
Unrecognized(s) == to_lowercase(s) \notin {"immediate", "agent", "pretend"}

\* The document that was read sets an unrecognised mode.
DocModeBad == doc.state = "ok" /\ doc.mode.some /\ Unrecognized(doc.mode.val)

\* The command line sets an unrecognised mode.
ArgModeBad == argMode.some /\ Unrecognized(argMode.val)

\* Config::new got as far as applying an unrecognised command-line mode:
\* nothing before config.rs:186 failed.
ArgModeBadMet ==
    /\ ArgModeBad
    /\ ~FlagWorkDirMissing
    /\ doc.state \in {"none", "ok"} /\ ~DocModeBad
    /\ has_work_dir(config.migrate)

\* C5 as claimed: an unrecognised mode, met in the document or on the
\* command line, ends Config::new in an InvParam error.
C5_AsClaimed ==
    (cpc = "done" /\ (DocModeBad \/ ArgModeBadMet)) =>
        (~cres.ok /\ cres.kind = "InvParam")

\* C5 amended: an unrecognised mode never yields a configuration; met on
\* the command line it ends Config::new in an InvParam error, met in the
\* document in an Upstream error (the wrapped failure to deserialise).
C5_UnrecognizedModeFails ==
    cpc = "done" =>
        /\ (DocModeBad \/ ArgModeBad) => ~cres.ok
        /\ ArgModeBadMet => cres.kind = "InvParam"
        /\ DocModeBad => cres.kind = "Upstream"

\* C5 witness: the document set mode immediate, --mode was unrecognised, and
\* Config::new ended in InvParam.
C5_Witness ==
    /\ cpc = "done" /\ cres.kind = "InvParam"
    /\ ArgModeBadMet /\ doc.mode = SomeStr("immediate")
    /\ config.migrate.mode = "Immediate"

\* The document's path as given: --config, or the default file name.
GivenConfig ==
    IF argConfig.some THEN argConfig.val ELSE RelPath(<<"balena-migrate.yml">>)

\* Where the given path lies under the provisional work dir: the
\* command-line work dir, else the current directory.
UnderWorkDir ==
    IF argWorkDir.some
    THEN Locate(argWorkDir.val) \o DropDots(GivenConfig.comps)
    ELSE Cwd \o DropDots(GivenConfig.comps)

\* C6: the document's path is the given path if that is absolute, else the
\* canonical path of the given path under the current directory if a file is
\* there, else its canonical path under the provisional work dir if a file
\* is there, else none; and with no file at the located path the base
\* configuration is the default one.
C6_DocumentLocation ==
    /\ (cpc \notin {"start", "locate"} /\ ~FlagWorkDirMissing) =>
           /\ GivenConfig.abs => config_path = SomePath(GivenConfig)
           /\ (~GivenConfig.abs /\ Locate(GivenConfig) \in fs) =>
                  config_path = SomePath(AbsPath(Locate(GivenConfig)))
           /\ (~GivenConfig.abs /\ Locate(GivenConfig) \notin fs
               /\ UnderWorkDir \in fs) =>
                  config_path = SomePath(AbsPath(UnderWorkDir))
           /\ (~GivenConfig.abs /\ Locate(GivenConfig) \notin fs
               /\ UnderWorkDir \notin fs) =>
                  config_path = NoPath
    /\ (cpc = "override" /\ ~DocumentFound) =>
           (config = Config_default /\ doc = NoDoc)

\* C6 witness: the document was not under the current directory, was found
\* under the command-line work dir, and was read.
C6_Witness ==
    /\ cpc = "override" /\ doc.state = "ok"
    /\ ~GivenConfig.abs /\ Locate(GivenConfig) \notin fs
    /\ config_path = SomePath(AbsPath(UnderWorkDir))

----------------------------------------------------------------------------
(* Claims about FileInfo::new (checked under SpecFileInfo)                 *)

\* The name was found by one of the two existence tests.
Found == foundGiven \/ foundWork

\* FileInfo::new returned Ok(Some(..)) / Ok(None).
ReturnedInfo == fres.ok /\ fres.val.some
ReturnedNone == fres.ok /\ ~fres.val.some

\* Where the name lies under the work dir, as an absolute path.
WorkDirPlace ==
    DropDots((IF fiWorkDir.abs THEN <<>> ELSE Cwd) \o fiWorkDir.comps
             \o fiFile.comps)

\* The name is there as given / under the work dir, in the file system as
\* it is now.
GivenThere   == Locate(fiFile) \in fs
WorkDirThere == ~fiFile.abs /\ WorkDirPlace \in fs

\* The absolute path of the place that was found, the name as given first.
FoundPlace == IF foundGiven THEN Locate(fiFile) ELSE WorkDirPlace

\* C7 as claimed: FileInfo::new returns a FileInfo exactly when the name was
\* found, and Ok(None) in every other case.
C7_AsClaimed ==
    fpc = "done" =>
        /\ ReturnedInfo <=> Found
        /\ ~Found => ReturnedNone

\* C7 amended: FileInfo::new returns Ok(None) exactly when the name is found
\* neither as given nor, for a name that is not absolute, under the work
\* dir; a FileInfo it returns is for the place that was found, the name as
\* given first, and that place exists; a name that was found yields a
\* FileInfo unless the file disappears before canonicalize() or metadata(),
\* and then the call fails instead of returning.
C7_FoundOrNone ==
    fpc = "done" =>
        /\ ReturnedNone <=> ~Found
        /\ ReturnedInfo =>
               /\ Found
               /\ fres.val.val.path = AbsPath(FoundPlace)
               /\ FoundPlace \in fs
        /\ (Found /\ ~ReturnedInfo) => (~fres.ok /\ removals > 0)
        /\ removals = 0 =>
               /\ foundGiven <=> GivenThere
               /\ Found <=> (GivenThere \/ WorkDirThere)

\* C7 witness: the name exists as given and under the work dir, and the
\* FileInfo returned is the one of the name as given.
C7_Witness ==
    /\ fpc = "done" /\ ReturnedInfo
    /\ GivenThere /\ WorkDirThere
    /\ Locate(fiFile) # WorkDirPlace
    /\ fres.val.val.path = AbsPath(Locate(fiFile))

\* C8: when the name was found and canonicalize() or metadata() then fails,
\* FileInfo::new returns an error value: it neither returns Ok(None) nor
\* panics.
C8_StatFailureIsError ==
    (fpc = "done" /\ Found /\ ~ReturnedInfo) =>
        (~fres.ok /\ fres.kind \in ErrorKinds)

----------------------------------------------------------------------------
(* Claims about is_type and expect_type (checked under SpecClassify)       *)

\* The utility ran and exited non-zero, or printed nothing but white space.
NoDescription ==
    /\ tCall.err = ""
    /\ \/ tCall.code # 0
       \/ \A i \in 1..Len(tCall.raw) : tCall.raw[i] = NL

\* C9: on the platform that has the utility, for every file kind, when the
\* utility exits non-zero or prints an empty description, is_type returns an
\* error (InvParam), never Ok(true) or Ok(false); it returns Ok(false) only
\* for a non-empty description of a successful run that does not match the
\* kind's pattern.
C9_NoDescriptionIsError ==
    (target_os = "linux" /\ tpc = "done" /\ tOp = "is_type") =>
        /\ NoDescription => (~tIs.ok /\ tIs.kind = "InvParam")
        /\ (tIs.ok /\ ~tIs.val) =>
               /\ tCall.err = "" /\ tCall.code = 0
               /\ Trim(tCall.raw) # <<>>
               /\ ~MatchType(tType, Trim(tCall.raw))

\* C9 witness: the utility exited with 0 having printed only a line break,
\* and is_type returned an error.
C9_Witness ==
    /\ target_os = "linux" /\ tpc = "done" /\ tOp = "is_type"
    /\ tCall.err = "" /\ tCall.code = 0 /\ tCall.raw = <<NL>>
    /\ ~tIs.ok

\* C10: expect_type returns Ok exactly when is_type returns Ok(true); when
\* is_type returns Ok(false) it returns an InvParam error whose message
\* names the kind's description and the path; an error of is_type is
\* returned unchanged.
C10_ExpectWrapsIsType ==
    (tpc = "done" /\ tOp = "expect_type") =>
        /\ tExpect.ok <=> (tIs.ok /\ tIs.val)
        /\ (tIs.ok /\ ~tIs.val) =>
               /\ ~tExpect.ok /\ tExpect.kind = "InvParam"
               /\ tExpect.val[2] = get_descr(tType)
               /\ tExpect.val[4] = tPath
        /\ ~tIs.ok => tExpect = tIs

\* C10 witness: is_type answered Ok(false) and expect_type returned the
\* InvParam error.
C10_Witness ==
    /\ tpc = "done" /\ tOp = "expect_type"
    /\ tIs.ok /\ ~tIs.val
    /\ tExpect.kind = "InvParam"

\* C11: on the platform without the utility, is_type fails with NotImpl for
\* every kind and every file, and expect_type fails the same way: it never
\* returns Ok.
C11_WindowsNotImplemented ==
    (target_os = "windows" /\ tpc = "done") =>
        /\ ~tIs.ok /\ tIs.kind = "NotImpl"
        /\ tOp = "expect_type" => (~tExpect.ok /\ tExpect.kind = "NotImpl")
        /\ displayed = <<>>

\* C11 witness: expect_type of the windows build was called for an OS image
\* and failed with NotImpl.
C11_Witness ==
    /\ target_os = "windows" /\ tpc = "done" /\ tOp = "expect_type"
    /\ tType = "OSImage"
    /\ tExpect.kind = "NotImpl"

----------------------------------------------------------------------------
(* Claims about call_cmd (checked under SpecCmd)                           *)

\* A call that has read the table: it is at the look-up or has done it.
ReadsTable(t) == cmdPc[t] = "get" \/ cmdSeen[t] # NoTable

\* The static is complete: it has an entry for every checked command.
TableBuilt == once = "done" /\ DOMAIN CMD_PATH = Range(CheckedCmds)

\* C12 in one state: whereis has run at most once for each command, at most
\* one thread is inside the initializer, and every call that reads the table
\* reads the complete table, the same one for all.
TableBuiltOnce ==
    /\ \A c \in Range(CheckedCmds) : lookups[c] <= 1
    /\ Cardinality({t \in Threads : cmdPc[t] = "init"}) <= 1
    /\ \A t \in Threads : ReadsTable(t) => TableBuilt
    /\ \A t \in Threads : cmdSeen[t] # NoTable => cmdSeen[t] = CMD_PATH

\* C12 in one step: once the table is built no step changes an entry or runs
\* whereis again.
TableFrozen ==
    once = "done" => (once' = "done" /\ CMD_PATH' = CMD_PATH /\ lookups' = lookups)

\* C12: under every interleaving of the calls of the threads the table is
\* built at most once: each command is looked up with whereis at most once,
\* every caller observes the same complete table, and a later call neither
\* resolves a command again nor changes an entry.
C12_TableBuiltOnce == []TableBuiltOnce /\ [][TableFrozen]_vars

\* C12 witness: the second thread came while the first ran the initializer,
\* and both have made all their calls on the one table.
C12_Witness ==
    /\ once = "done"
    /\ \A c \in Range(CheckedCmds) : lookups[c] = 1
    /\ \A t \in Threads :
          cmdPc[t] = "returned" /\ cmdCalls[t] = MaxCalls /\ cmdSeen[t] = CMD_PATH
    /\ cmdPos[1] = Len(CheckedCmds) /\ cmdPos[2] = 0

\* A required command is not installed.
RequiredMissing == \E c \in Range(REQUIRED_CMDS) : cmdEnv[c] # "found"

\* C13: when a required command cannot be located, a call of call_cmd that
\* ends returns an error value to its caller; it does not panic.
C13_MissingRequiredIsError ==
    \A t \in Threads :
        (RequiredMissing /\ cmdPc[t] \in {"returned", "panicked"}) =>
            /\ cmdPc[t] = "returned"
            /\ ~cmdRes[t].ok /\ cmdRes[t].kind \in ErrorKinds

\* An optional command whereis does not locate.
AbsentOptional(c) == c \in Range(OPTIONAL_CMDS) /\ cmdEnv[c] # "found"

\* C14: an optional command that whereis did not locate is recorded as None
\* in the table, every call_cmd for it returns the NotFound error "is not
\* available", and no subprocess is ever started for it.
C14_AbsentOptionalUnavailable ==
    /\ \A c \in Range(OPTIONAL_CMDS) :
          (once = "done" /\ AbsentOptional(c)) => ~CMD_PATH[c].some
    /\ \A t \in Threads :
          (cmdPc[t] \in {"returned", "panicked"} /\ AbsentOptional(cmdArg[t])
           /\ ~RequiredMissing) =>
              /\ cmdPc[t] = "returned"
              /\ ~cmdRes[t].ok /\ cmdRes[t].kind = "NotFound"
              /\ cmdRes[t].val = <<"call_cmd:", cmdArg[t], "is not available">>
    /\ \A c \in spawned : ~AbsentOptional(c)

\* C14 witness: both threads have asked twice, the last time for mokutil,
\* which is not installed, and got the NotFound error.
C14_Witness ==
    /\ AbsentOptional(MOKUTIL_CMD)
    /\ \A t \in Threads :
          /\ cmdPc[t] = "returned" /\ cmdCalls[t] = MaxCalls
          /\ cmdArg[t] = MOKUTIL_CMD
          /\ cmdRes[t].kind = "NotFound"
    /\ FILE_CMD \in spawned

----------------------------------------------------------------------------
(* Claims about check_tcp_connect (checked under SpecNet)                  *)

\* What name resolution answered for the host of the call.
Resolved == netResolve[netHost]

\* C15: one call makes at most one connection attempt, to the first address
\* name resolution returned: if that attempt fails or times out the call
\* fails without trying another address; if resolution returns no address
\* the call fails with InvState without any attempt; if the attempt
\* succeeds the call returns Ok and has shut that connection down.
C15_FirstAddressOnly ==
    npc = "done" =>
        /\ Len(attempts) <= 1
        /\ ~Resolved.ok => (attempts = <<>> /\ ~nres.ok /\ nres.kind = "Upstream")
        /\ (Resolved.ok /\ Resolved.val = <<>>) =>
               (attempts = <<>> /\ ~nres.ok /\ nres.kind = "InvState")
        /\ (Resolved.ok /\ Resolved.val # <<>>) =>
               /\ attempts = <<<<Resolved.val[1], netPort>>>>
               /\ nres.ok <=> netReach[Resolved.val[1]] = "ok"
               /\ nres.ok => shutdowns = attempts
               /\ ~nres.ok => (nres.kind = "Upstream" /\ shutdowns = <<>>)

\* C15 witness: resolution returned two addresses, the first does not answer
\* in time, the second would accept, and the call failed after one attempt.
C15_Witness ==
    /\ npc = "done"
    /\ Resolved.ok /\ Len(Resolved.val) = 2
    /\ netReach[Resolved.val[1]] = "timeout"
    /\ netReach[Resolved.val[2]] = "ok"
    /\ ~nres.ok /\ Len(attempts) = 1

----------------------------------------------------------------------------
(* Claims about BalenaCfgJson::check (checked under SpecJsonCheck)         *)

\* What the network does to a probe of the host: it connects exactly when
\* the name resolves and the first address accepts.
Connects(host) ==
    /\ netResolve[host].ok /\ netResolve[host].val # <<>>
    /\ netReach[netResolve[host].val[1]] = "ok"

\* The probes of one kind that check() made.
ProbesOf(which) == {i \in 1..Len(jProbes) : jProbes[i].which = which}

\* C16: when a probe that check() makes (the API probe if API checking is
\* enabled, the VPN probe if VPN checking is enabled) fails, for a name that
\* does not resolve, a refused connection or a timeout, check() returns the
\* Displayed error and a message was printed; it returns Ok only if each
\* enabled probe was made and connected.
C16_ProbeFailureIsDisplayed ==
    jOp = "check" =>
        /\ \A i \in 1..Len(jProbes) : jProbes[i].ok <=> Connects(jProbes[i].host)
        /\ ProbesOf("api") # {} => checkApi
        /\ ProbesOf("vpn") # {} => checkVpn
        /\ (\E i \in 1..Len(jProbes) : ~jProbes[i].ok) =>
               /\ ~jres.ok /\ jres.kind = "Displayed"
               /\ displayed # <<>>
        /\ jres.ok =>
               /\ checkApi => \E i \in ProbesOf("api") : jProbes[i].ok
               /\ checkVpn => \E i \in ProbesOf("vpn") : jProbes[i].ok

\* C16 witness: only VPN checking is enabled, the document names
\* vpn.example.com and port 443, the connection times out, and check()
\* returned the Displayed error.
C16_Witness ==
    /\ jOp = "check" /\ ~checkApi /\ checkVpn
    /\ jConfig = BaseDoc
    /\ netResolve["vpn.example.com"].ok
    /\ netResolve["vpn.example.com"].val # <<>>
    /\ netReach[netResolve["vpn.example.com"].val[1]] = "timeout"
    /\ Len(jProbes) = 1 /\ jProbes[1].port = 443
    /\ jres.kind = "Displayed" /\ Len(displayed) = 1

----------------------------------------------------------------------------
(* Claims about the provisioning document (checked under SpecJson)         *)

\* The key a getter reads and whether it is one of the unsigned getters.
KeyOf(g) ==
    CASE g = "get_hostname"     -> HOSTNAME
      [] g = "get_app_id"       -> "applicationId"
      [] g = "get_api_key"      -> "apiKey"
      [] g = "get_api_endpoint" -> "apiEndpoint"
      [] g = "get_vpn_endpoint" -> "vpnEndpoint"
      [] g = "get_vpn_port"     -> "vpnPort"
      [] g = "get_device_type"  -> "deviceType"
UintGetter(g) == g \in {"get_app_id", "get_vpn_port"}

\* The value has the shape the getter expects, and what it then holds.
HasShape(g, value) ==
    IF UintGetter(g) THEN value.t = "Number" /\ value.n >= 0
    ELSE value.t = "String"
Stored(g, value) == IF UintGetter(g) THEN value.n ELSE value.s

\* The step is a call of a getter / of set_host_name / of write.
GetStep   == jOp' = "get" /\ jOps' = jOps + 1
SetStep   == jOp' = "set_host_name" /\ jOps' = jOps + 1
WriteStep == jOp' = "write" /\ jOps' = jOps + 1

\* C17 for one call of a getter.
GetterContract ==
    GetStep =>
        LET k == KeyOf(jArg') IN
        /\ jConfig' = jConfig /\ modified' = modified
        /\ k \notin DOMAIN jConfig => (~jres'.ok /\ jres'.kind = "NotFound")
        /\ (k \in DOMAIN jConfig /\ HasShape(jArg', jConfig[k])) =>
               (jres'.ok /\ jres'.val = Stored(jArg', jConfig[k]))
        /\ (k \in DOMAIN jConfig /\ ~HasShape(jArg', jConfig[k])) =>
               (~jres'.ok /\ jres'.kind = "InvParam")

\* C17: every typed getter returns the stored value when its key is present
\* with the expected shape, a NotFound error when the key is absent, and an
\* InvParam error when the key is present with another shape; it changes
\* neither the document nor the modified flag.
C17_TypedGetters == [][GetterContract]_vars

\* C17 witness: get_vpn_port was called on a document whose vpnPort is a
\* string, and returned InvParam.
C17_Witness ==
    /\ jOp = "get" /\ jArg = "get_vpn_port"
    /\ "vpnPort" \in DOMAIN jConfig /\ jConfig["vpnPort"].t = "String"
    /\ ~jres.ok /\ jres.kind = "InvParam"

\* C18 for one call of set_host_name.
SetHostNameContract ==
    SetStep =>
        /\ DOMAIN jConfig' = DOMAIN jConfig \cup {HOSTNAME}
        /\ jConfig'[HOSTNAME] = JString(jArg')
        /\ \A k \in DOMAIN jConfig \ {HOSTNAME} : jConfig'[k] = jConfig[k]
        /\ modified'
        /\ jres'.some <=> HOSTNAME \in DOMAIN jConfig
        /\ get_hostname(jConfig').ok /\ get_hostname(jConfig').val = jArg'
        /\ jres'.some =>
               /\ get_hostname(jConfig).ok
               /\ jres'.val = get_hostname(jConfig).val

\* C18: set_host_name(new) puts new under the hostname key, leaves every
\* other key alone, sets the modified flag, and returns the previous
\* hostname exactly when the key existed: get_hostname afterwards returns
\* new, and the value returned is what get_hostname returned before.
C18_SetHostName == [][SetHostNameContract]_vars

\* C19 in one state: the flag is false after construction and after a write
\* that succeeded, true after set_host_name.
FlagAfterCall ==
    /\ (jpc = "ready" /\ jOps = 0) => ~modified
    /\ (jOp = "write" /\ jres.ok) => ~modified
    /\ jOp = "set_host_name" => modified

\* C19 in one step: a write that fails leaves flag and document as they were.
FailedWriteKeeps ==
    (WriteStep /\ ~jres'.ok) => (modified' = modified /\ jConfig' = jConfig)

\* C19: the modified flag is false right after construction and after a
\* successful write, true right after set_host_name; a write that fails at
\* the temporary file, at the open or at the serialization leaves the flag
\* and the in-memory document unchanged.
C19_DirtyFlag == []FlagAfterCall /\ [][FailedWriteKeeps]_vars

\* C19 witness: the host name was set and the write then failed while
\* serializing: the document is still marked modified.
C19_Witness ==
    /\ jOp = "write" /\ jArg = "serialize" /\ ~jres.ok
    /\ modified /\ jConfig[HOSTNAME] = JString("new-host")

\* C20: the file of a successful write, parsed again, is the in-memory
\* document: the same keys, unknown ones included, each with its value, the
\* hostname with the value set last.
C20_RoundTrip ==
    (jOp = "reparse" /\ ~modified) =>
        (jReparsed.ok /\ jReparsed.val = jConfig)

\* C20 witness: a document with an unknown key got a new host name, was
\* written and parsed again.
C20_Witness ==
    /\ jOp = "reparse" /\ ~modified /\ jReparsed.ok
    /\ UnknownKey \in DOMAIN jReparsed.val
    /\ HOSTNAME \in DOMAIN jReparsed.val
    /\ jReparsed.val[HOSTNAME] = JString("new-host")

\* C21 for one step: a call of write leaves every file that existed as it
\* was, and when it succeeds it returns a name of the work dir that no file
\* had before and that now holds the serialized document; no other
\* operation changes any file.
WriteContract ==
    /\ \A f \in DOMAIN jDisk : f \in DOMAIN jDisk' /\ jDisk'[f] = jDisk[f]
    /\ (WriteStep /\ jres'.ok) =>
           /\ jres'.val \in TmpNames
           /\ jres'.val \notin DOMAIN jDisk
           /\ jres'.val \in DOMAIN jDisk'
           /\ \E order \in KeyOrders(jConfig) :
                 jDisk'[jres'.val] = to_writer(jConfig, order)
           /\ jReturned' = Append(jReturned, jres'.val)
    /\ ~WriteStep => jDisk' = jDisk

\* C21 in one state: the paths returned so far are pairwise different and
\* none is the file the document was loaded from.
ReturnedDistinct ==
    /\ \A i, j \in 1..Len(jReturned) : jReturned[i] = jReturned[j] => i = j
    /\ \A i \in 1..Len(jReturned) : jReturned[i] # CONFIG_JSON

\* C21: write puts the document into a newly created, uniquely named file
\* of the target directory and returns that path; over any sequence of
\* set_host_name and write calls the file the document was loaded from is
\* never written, truncated or replaced, and no two writes return the same
\* path.
C21_WriteToNewFile == []ReturnedDistinct /\ [][WriteContract]_vars

\* C21 witness: the host name was changed and the document written twice:
\* two different files hold the new document and the source file differs
\* from them.
C21_Witness ==
    /\ Len(jReturned) = 2 /\ jReturned[1] # jReturned[2]
    /\ jOp = "write" /\ jres.ok
    /\ HOSTNAME \in DOMAIN jConfig
    /\ jConfig[HOSTNAME] = JString("new-host")
    /\ jDisk[jReturned[2]] # jDisk[CONFIG_JSON]
    /\ from_reader(jDisk[jReturned[1]]) = from_reader(jDisk[jReturned[2]])

----------------------------------------------------------------------------
(* Claims about the checksum step (checked under SpecDigest)               *)

\* The verification that ran reported a mismatch naming both values.
Mismatch(r, expected, computed) ==
    /\ ~r.ok /\ r.kind # "PANIC"
    /\ r.val.expected = expected /\ r.val.computed = computed

\* C22: with a configured digest the checksum step succeeds exactly when the
\* digest computed from the artifact equals the configured hex text, case
\* not regarded; after any one digit of a matching configured digest is
\* replaced by a hex digit of another value the step fails with a mismatch
\* error that names the expected and the computed value; without a
\* configured digest the step never rejects the artifact.
C22_ChecksumLaw ==
    /\ (dgpc # "idle" /\ ~dgExpected.some) => dgRes.ok
    /\ (dgpc # "idle" /\ dgExpected.some) =>
           /\ dgRes.ok <=>
                  /\ Len(dgExpected.hex) = Len(compute_digest(dgContent))
                  /\ \A i \in 1..Len(dgExpected.hex) :
                        HexValue(dgExpected.hex[i])
                            = HexValue(compute_digest(dgContent)[i])
           /\ ~dgRes.ok =>
                  Mismatch(dgRes, dgExpected.hex, compute_digest(dgContent))
    /\ (dgpc = "reverified" /\ dgFirst.ok) =>
           Mismatch(dgRes, dgExpected.hex, compute_digest(dgContent))

\* C22 witness: an artifact whose digest was configured in upper case was
\* accepted, and rejected after one digit of the configured digest changed.
C22_Witness ==
    /\ dgpc = "reverified" /\ dgFirst.ok /\ ~dgRes.ok
    /\ Len(dgContent) > 0
    /\ \E i \in 1..Len(dgExpected.hex) :
          dgExpected.hex[i] \in {"A", "B", "C", "D", "E", "F"}

----------------------------------------------------------------------------
(* Claims about the reporting of failures                                  *)

\* The failure an operation returned was printed once and is returned as
\* the Displayed error.
PrintedOnceAsDisplayed(r) ==
    displayed # <<>> => (Len(displayed) = 1 /\ ~r.ok /\ r.kind = "Displayed")

\* The three places the claim names, each in its own specification.
WorkDirFailureReported == cpc = "done" => PrintedOnceAsDisplayed(cres)
ProbeFailureReported   == jOp = "check" => PrintedOnceAsDisplayed(jres)
ExpectFailureReported  ==
    (tpc = "done" /\ tOp = "expect_type") => PrintedOnceAsDisplayed(tExpect)

\* C23: a failure that was printed where it was detected was printed exactly
\* once and is propagated as the Displayed error, so that no outer layer
\* prints it again: for the missing work directory, the failed connectivity
\* probes and the failed type expectation.
C23_PrintedOnceThenDisplayed ==
    /\ WorkDirFailureReported
    /\ ProbeFailureReported
    /\ ExpectFailureReported

----------------------------------------------------------------------------
(* Claims about Config::from_string (checked under SpecParse)              *)

\* The mode names a document can use, and the mode each names.
RecognisedModes == {"immediate", "IMMEDIATE", "agent", "Agent", "pretend"}
DocModeNamed(s) ==
    CASE s \in {"immediate", "IMMEDIATE"} -> "Immediate"
      [] s \in {"agent", "Agent"}         -> "Agent"
      [] s = "pretend"                    -> "Pretend"

\* The document is YAML and every value it sets is one the program knows.
WellFormed(d) ==
    d.state = "ok" /\ (d.mode.some => d.mode.val \in RecognisedModes)

\* The key is set: present and not null.
IsSet(node) == node.k \notin {"absent", "null"}

\* The hash a document's md5 value stands for.
HashWritten(node) ==
    IF ~IsSet(node) THEN NoHash
    ELSE IF node.k = "int" /\ node.n = 1234
         THEN HashInfo_Md5(<<"1", "2", "3", "4">>)
         ELSE HashInfo_Md5(node.h)

\* A file reference holds the document's path and hash.
RefAsWritten(ref, path, md5) ==
    /\ ref.path = (IF IsSet(path) THEN path.s ELSE "")
    /\ ref.hash = HashWritten(md5)

\* Every recognised field except the reboot delay holds the document's
\* value if the document sets it and the default otherwise.
FieldsAsWritten(d, c) ==
    /\ c.migrate.mode =
           (IF d.mode.some THEN DocModeNamed(d.mode.val) ELSE DEFAULT_MODE)
    /\ c.migrate.work_dir =
           (IF d.work_dir.some THEN d.work_dir.val ELSE RelPath(<<".">>))
    /\ c.migrate.kernel_file =
           (IF IsSet(d.kernel_file) THEN d.kernel_file.s ELSE "")
    /\ c.migrate.initramfs_file =
           (IF IsSet(d.initramfs_file) THEN d.initramfs_file.s ELSE "")
    /\ RefAsWritten(c.migrate.kernel, d.kernel_path, d.kernel_md5)
    /\ RefAsWritten(c.migrate.initrd, d.initrd_path, d.initrd_md5)
    /\ c.balena.image_type =
           (CASE d.image.kind = "dd" -> "Flasher"
              [] d.image.kind = "fs" -> "FileSystems"
              [] OTHER -> "none")
    /\ d.image.kind # "none" =>
           /\ c.balena.image = SomeStr(d.image.path.s)
           /\ c.balena.image_hash = HashWritten(d.image.md5)
    /\ d.image.kind = "none" => ~c.balena.image.some
    /\ RefAsWritten(c.balena.config, d.config_path, d.config_md5)
    /\ c.balena.api_check =
           (IF IsSet(d.api_check) THEN SomeBool(d.api_check.b) ELSE NoBool)
    /\ c.balena.check_vpn =
           (IF IsSet(d.check_vpn) THEN SomeBool(d.check_vpn.b) ELSE NoBool)
    /\ c.balena.check_timeout =
           (IF IsSet(d.check_timeout) THEN SomeNat(d.check_timeout.n)
            ELSE NoNat)
    /\ c.debug.no_flash =
           (IF IsSet(d.no_flash) THEN SomeBool(d.no_flash.b) ELSE NoBool)

\* The keys the program does not know change nothing.
UnknownIgnored(d, r) == r = Config_from_string([d EXCEPT !.unknown = {}])

\* The reboot delay is the document's value, whatever it is.
RebootExact(d, c) ==
    c.migrate.reboot = (IF IsSet(d.reboot) THEN SomeNat(d.reboot.n) ELSE NoNat)

\* The reboot delay is the document's value if that is greater than zero,
\* and no delay otherwise.
RebootIfPositive(d, c) ==
    c.migrate.reboot =
        (IF IsSet(d.reboot) /\ d.reboot.n > 0 THEN SomeNat(d.reboot.n)
         ELSE NoNat)

\* C24 as claimed: parsing a document with the sections migrate, balena and
\* debug succeeds and every recognised field the document sets, the reboot
\* delay included, holds exactly the document's value, for both image
\* variants; unknown keys and absent or null optional keys neither make
\* parsing fail nor change a recognised field.
C24_AsClaimed ==
    (ypc = "done" /\ WellFormed(yDoc)) =>
        /\ yRes.ok
        /\ FieldsAsWritten(yDoc, yRes.val)
        /\ RebootExact(yDoc, yRes.val)
        /\ UnknownIgnored(yDoc, yRes)

\* C24, amended: as claimed, except that a reboot delay that is not greater
\* than zero is parsed as no reboot delay.
C24_ParsedAsWritten ==
    (ypc = "done" /\ WellFormed(yDoc)) =>
        /\ yRes.ok
        /\ FieldsAsWritten(yDoc, yRes.val)
        /\ RebootIfPositive(yDoc, yRes.val)
        /\ UnknownIgnored(yDoc, yRes)

\* C24 witness: the document with the per-partition image, a digest written
\* as a number, a null toggle and unknown keys was parsed.
C24_Witness ==
    /\ ypc = "done" /\ yRes.ok
    /\ yDoc.image.kind = "fs" /\ yDoc.image.md5.k = "int"
    /\ yDoc.check_vpn = YNull
    /\ yDoc.unknown = {"dtb_path", "extra"}
    /\ yRes.val.balena.image_type = "FileSystems"
    /\ yRes.val.migrate.reboot = SomeNat(5)

----------------------------------------------------------------------------
\* C25: Config::check validates migrate, then balena and debug with the
\* resolved mode, and stops at the first failure; Config::new calls it once,
\* after the command-line overrides, and returns a configuration only if it
\* succeeded.
SubTrees == <<"migrate", "balena", "debug">>

\* The outcome of one call of check in environment env, stated from the
\* three sub-tree validations.
StopsAtFirstFailure(c, env, seen, res) ==
    LET rm == migrate_check(c.migrate, env)
        rb == balena_check(c.balena, c.migrate.mode, env)
        rd == debug_check(c.migrate.mode, env)
    IN  /\ \E n \in 1..3 : seen = SubSeq(SubTrees, 1, n)
        /\ ~rm.ok => seen = <<"migrate">> /\ res = rm
        /\ (rm.ok /\ ~rb.ok) => seen = <<"migrate", "balena">> /\ res = rb
        /\ (rm.ok /\ rb.ok) => seen = SubTrees
        /\ (rm.ok /\ rb.ok /\ ~rd.ok) => res = rd
        /\ (rm.ok /\ rb.ok /\ rd.ok) => res = Ok(c)

OverridesApplied ==
    /\ argWorkDir.some => config.migrate.work_dir = FlagWorkDir
    /\ argMode.some => config.migrate.mode = ModeNamed(argMode.val)
    /\ argImage.some => config.balena.image = argImage

CheckedOnceAfterOverrides ==
    /\ validated # <<>> => cpc = "done"
    /\ validated' # validated =>
           /\ cpc = "check" /\ validated = <<>> /\ OverridesApplied
           /\ config' = config
           /\ \E env \in CheckEnvs :
                  StopsAtFirstFailure(config, env, validated', cres')

ReturnedOnlyIfChecked ==
    (cpc = "done" /\ cres.ok) => validated = SubTrees /\ cres.val = config

C25_CheckOrderAndOnce ==
    []ReturnedOnlyIfChecked /\ [][CheckedOnceAfterOverrides]_vars

\* C25 witness: a --mode override was applied, migrate passed, balena failed
\* and debug was not validated.
C25_Witness ==
    /\ cpc = "done" /\ ~cres.ok /\ argMode.some
    /\ config.migrate.mode = ModeNamed(argMode.val)
    /\ validated = <<"migrate", "balena">>

----------------------------------------------------------------------------
\* The description of a successful run: the trimmed output, not empty.
Described ==
    /\ target_os = "linux" /\ tpc = "done" /\ tOp = "is_type"
    /\ tCall.err = "" /\ tCall.code = 0 /\ Trim(tCall.raw) # <<>>
Description == Trim(tCall.raw)

\* d begins with one of the phrases; d ends with ")" after a "(gzip
\* compressed data" that follows the first phrase.
BeginsWith(d, phrases) == d[1] \in phrases
GzipMarked(d) ==
    /\ d[Len(d)] = ")"
    /\ \E i \in 2..Len(d) : d[i] = GZ
HasLineBreak(d) == \E i \in 1..Len(d) : d[i] = NL

\* What the kinds are said to match: `only` kinds give a necessary
\* condition, the others the set of descriptions matched.
MatchesOnlyWhen(t, d, m) ==
    CASE t = "OSImage" ->
             m => (BeginsWith(d, {"DOS/MBR boot sector", "x86 boot sector"})
                   /\ GzipMarked(d))
      [] t = "InitRD" ->
             m => (BeginsWith(d, {"ASCII cpio archive"}) /\ GzipMarked(d))
      [] t = "KernelARMHF" ->
             m => BeginsWith(d, {"Linux kernel ARM boot executable zImage"})
      [] t = "KernelI386" ->
             m => BeginsWith(d, {"Linux kernel i386 boot executable bzImage"})
      [] OTHER -> TRUE
MatchesThose(t, d, m) ==
    CASE t \in {"Json", "Text"} -> m <=> BeginsWith(d, {"ASCII text"})
      [] t = "KernelAMD64" ->
             m <=> BeginsWith(d, {"Linux kernel x86 boot executable bzImage",
                                  "x86 boot sector"})
      [] t = "DTB" -> m <=> BeginsWith(d, {"Device Tree Blob", "data"})
      [] OTHER -> TRUE

\* C26 as stated: for a non-empty description of a successful run is_type
\* answers by the pattern of the kind alone; OSImage and InitRD match only
\* descriptions with their first phrase and the gzip marker at the end, the
\* ARMHF and I386 kernels only their own description, and Json, Text, the
\* AMD64 kernel and DTB match the descriptions that begin with their phrases,
\* whatever follows.
C26_AsClaimed ==
    Described =>
        /\ tIs.ok /\ tIs.val \in BOOLEAN
        /\ MatchesOnlyWhen(tType, Description, tIs.val)
        /\ MatchesThose(tType, Description, tIs.val)

\* C26 amended: the same for a description without a line break; a
\* description with a line break in it matches no kind.
C26_PatternPerKind ==
    Described =>
        /\ tIs.ok /\ tIs.val \in BOOLEAN
        /\ MatchesOnlyWhen(tType, Description, tIs.val)
        /\ ~HasLineBreak(Description) =>
               MatchesThose(tType, Description, tIs.val)
        /\ HasLineBreak(Description) => ~tIs.val

\* C26 witness: "x86 boot sector" with the gzip marker was matched as an
\* AMD64 kernel.
C26_Witness ==
    /\ Described /\ tType = "KernelAMD64"
    /\ Description = <<"x86 boot sector", GZ, ")">>
    /\ tIs = Ok(TRUE)

----------------------------------------------------------------------------
\* The document has an applicationId that is an unsigned integer.
AppIdUsable ==
    /\ "applicationId" \in DOMAIN jConfig
    /\ jConfig["applicationId"].t = "Number"
    /\ jConfig["applicationId"].n >= 0

\* The API step of check() was enabled and did not succeed: it made no
\* probe, or its probe failed.
ApiStepFailed ==
    /\ checkApi
    /\ \/ ProbesOf("api") = {}
       \/ \E i \in ProbesOf("api") : ~jProbes[i].ok

VpnPortValue == jConfig["vpnPort"].n
VpnPortUnsigned ==
    /\ "vpnPort" \in DOMAIN jConfig
    /\ jConfig["vpnPort"].t = "Number" /\ jConfig["vpnPort"].n >= 0

\* C28: the VPN probe uses vpnPort narrowed to 16 bits: the value itself up
\* to 65535, the value modulo 65536 above, and a value out of the port range
\* is reported as no error of its own.
C28_VpnPortNarrowed ==
    (jOp = "check" /\ ProbesOf("vpn") # {}) =>
        /\ VpnPortUnsigned
        /\ \A i \in ProbesOf("vpn") :
               /\ VpnPortValue <= 65535 => jProbes[i].port = VpnPortValue
               /\ VpnPortValue > 65535 =>
                      /\ jProbes[i].port = VpnPortValue - 65536
                              * (VpnPortValue \div 65536)
                      /\ jProbes[i].port # VpnPortValue
               /\ jProbes[i].port \in 0..65535
               /\ jres.ok <=> jProbes[i].ok

\* C28 witness: vpnPort is 65979, the VPN endpoint was probed on port 443
\* and check() returned Ok.
C28_Witness ==
    /\ jOp = "check" /\ checkVpn /\ VpnPortUnsigned /\ VpnPortValue = 65979
    /\ ProbesOf("vpn") # {}
    /\ \A i \in ProbesOf("vpn") : jProbes[i].port = 443 /\ jProbes[i].ok
    /\ jres.ok

====
